---- MODULE Spec2Model ----
(***************************************************************************)
(* Model of the Ravello SDK client (lib/ravello_sdk.py): the URL           *)
(* normalizer, the session state and the request execution engine          *)
(* RavelloClient._request with its auto-login, retry and redirect loop.    *)
(*                                                                         *)
(* Concatenation, slicing and parsing of strings (URLs, paths) are         *)
(* computed on their characters, as Python computes them.  An optional     *)
(* value (a header that may be absent, a Python None) is the empty tuple   *)
(* None or the 1-tuple Some(v).                                            *)
(*                                                                         *)
(* The engine blocks in exactly one place, the HTTP dispatch of line 345.  *)
(* An action of the model is the code that runs between two such           *)
(* suspension points: a public method runs until its first dispatch (or    *)
(* its end), and the arrival of the outcome of a dispatch runs the code    *)
(* until the next dispatch (or the end of the public method).              *)
(*                                                                         *)
(* Specifications: Spec, the client under every public call; SpecFair,     *)
(* requests whose dispatches all return or time out; SpecReload, requests  *)
(* and reloads of their records; SpecWait, wait_for; SpecFilter, SpecNames *)
(* and SpecApps, the module-level functions _match_filter, new_name and    *)
(* application_state on the inputs a caller passes.                        *)
(***************************************************************************)
EXTENDS Integers, Sequences, FiniteSets, TLC

None == << >>
Some(v) == << v >>
IsNone(o) == o = None
Val(o) == o[1]

(***************************************************************************)
(* Bounds of the model.                                                    *)
(***************************************************************************)
MaxRetries == 1
MaxRedirects == 1

(***************************************************************************)
(* Program constants.                                                      *)
(***************************************************************************)
DEFAULT_HTTPS_PORT == 443
DEFAULT_HTTP_PORT == 80
default_retries == 3
default_redirects == 3
default_timeout == 60

default_url == "https://cloud.ravellosystems.com/api/v1"

\* Endpoints a caller passes to the constructor or to connect().
BareUrl == "lab.example.com:8443"
Urls == {default_url, BareUrl}

LoginPath == "/login"
LogoutPath == "/logout"
AppsPath == "/applications"
AppPath == "/applications/42"

(***************************************************************************)
(* Strings.  TLC does not take a string apart, so the characters of every  *)
(* string the model can build are tabulated: Chars(s) is the sequence of   *)
(* the characters of s and Str its inverse.  The state holds strings; the  *)
(* operations of Python's str are computed on their characters.            *)
(***************************************************************************)
StrTable ==
    { <<"", <<>>>>,
      <<"/", <<"/">>>>,
      <<"//", <<"/","/">>>>,
      <<"//applications", <<"/","/","a","p","p","l","i","c","a","t","i","o","n","s">>>>,
      <<"//applications/0", <<"/","/","a","p","p","l","i","c","a","t","i","o","n","s","/","0">>>>,
      <<"//applications/0/42", <<"/","/","a","p","p","l","i","c","a","t","i","o","n","s","/","0","/","4","2">>>>,
      <<"//applications/42", <<"/","/","a","p","p","l","i","c","a","t","i","o","n","s","/","4","2">>>>,
      <<"//applications/42/0", <<"/","/","a","p","p","l","i","c","a","t","i","o","n","s","/","4","2","/","0">>>>,
      <<"//applications/42/0/42", <<"/","/","a","p","p","l","i","c","a","t","i","o","n","s","/","4","2","/","0","/","4","2">>>>,
      <<"//applications/42/42", <<"/","/","a","p","p","l","i","c","a","t","i","o","n","s","/","4","2","/","4","2">>>>,
      <<"//applications/42/42/42", <<"/","/","a","p","p","l","i","c","a","t","i","o","n","s","/","4","2","/","4","2","/","4","2">>>>,
      <<"//applications/42/7", <<"/","/","a","p","p","l","i","c","a","t","i","o","n","s","/","4","2","/","7">>>>,
      <<"//applications/42/7/42", <<"/","/","a","p","p","l","i","c","a","t","i","o","n","s","/","4","2","/","7","/","4","2">>>>,
      <<"//applications/7", <<"/","/","a","p","p","l","i","c","a","t","i","o","n","s","/","7">>>>,
      <<"//applications/7/42", <<"/","/","a","p","p","l","i","c","a","t","i","o","n","s","/","7","/","4","2">>>>,
      <<"//cloud.ravellosystems.com/api/v1/applications", <<"/","/","c","l","o","u","d",".","r","a","v","e","l","l","o","s","y","s","t","e","m","s",".","c","o","m","/","a","p","i","/","v","1","/","a","p","p","l","i","c","a","t","i","o","n","s">>>>,
      <<"//cloud.ravellosystems.com/api/v1/applications/42", <<"/","/","c","l","o","u","d",".","r","a","v","e","l","l","o","s","y","s","t","e","m","s",".","c","o","m","/","a","p","i","/","v","1","/","a","p","p","l","i","c","a","t","i","o","n","s","/","4","2">>>>,
      <<"//cloud.ravellosystems.com/api/v1/applications/42/42", <<"/","/","c","l","o","u","d",".","r","a","v","e","l","l","o","s","y","s","t","e","m","s",".","c","o","m","/","a","p","i","/","v","1","/","a","p","p","l","i","c","a","t","i","o","n","s","/","4","2","/","4","2">>>>,
      <<"//cloud.ravellosystems.com/api/v1/applications/42/42/42", <<"/","/","c","l","o","u","d",".","r","a","v","e","l","l","o","s","y","s","t","e","m","s",".","c","o","m","/","a","p","i","/","v","1","/","a","p","p","l","i","c","a","t","i","o","n","s","/","4","2","/","4","2","/","4","2">>>>,
      <<"//login", <<"/","/","l","o","g","i","n">>>>,
      <<"//login/42", <<"/","/","l","o","g","i","n","/","4","2">>>>,
      <<"//logout", <<"/","/","l","o","g","o","u","t">>>>,
      <<"//logout/42", <<"/","/","l","o","g","o","u","t","/","4","2">>>>,
      <<"/api/v1", <<"/","a","p","i","/","v","1">>>>,
      <<"/api/v1/applications", <<"/","a","p","i","/","v","1","/","a","p","p","l","i","c","a","t","i","o","n","s">>>>,
      <<"/api/v1/applications/0", <<"/","a","p","i","/","v","1","/","a","p","p","l","i","c","a","t","i","o","n","s","/","0">>>>,
      <<"/api/v1/applications/0/42", <<"/","a","p","i","/","v","1","/","a","p","p","l","i","c","a","t","i","o","n","s","/","0","/","4","2">>>>,
      <<"/api/v1/applications/42", <<"/","a","p","i","/","v","1","/","a","p","p","l","i","c","a","t","i","o","n","s","/","4","2">>>>,
      <<"/api/v1/applications/42/0", <<"/","a","p","i","/","v","1","/","a","p","p","l","i","c","a","t","i","o","n","s","/","4","2","/","0">>>>,
      <<"/api/v1/applications/42/0/42", <<"/","a","p","i","/","v","1","/","a","p","p","l","i","c","a","t","i","o","n","s","/","4","2","/","0","/","4","2">>>>,
      <<"/api/v1/applications/42/42", <<"/","a","p","i","/","v","1","/","a","p","p","l","i","c","a","t","i","o","n","s","/","4","2","/","4","2">>>>,
      <<"/api/v1/applications/42/42/42", <<"/","a","p","i","/","v","1","/","a","p","p","l","i","c","a","t","i","o","n","s","/","4","2","/","4","2","/","4","2">>>>,
      <<"/api/v1/applications/42/7", <<"/","a","p","i","/","v","1","/","a","p","p","l","i","c","a","t","i","o","n","s","/","4","2","/","7">>>>,
      <<"/api/v1/applications/42/7/42", <<"/","a","p","i","/","v","1","/","a","p","p","l","i","c","a","t","i","o","n","s","/","4","2","/","7","/","4","2">>>>,
      <<"/api/v1/applications/7", <<"/","a","p","i","/","v","1","/","a","p","p","l","i","c","a","t","i","o","n","s","/","7">>>>,
      <<"/api/v1/applications/7/42", <<"/","a","p","i","/","v","1","/","a","p","p","l","i","c","a","t","i","o","n","s","/","7","/","4","2">>>>,
      <<"/api/v1/cloud.ravellosystems.com/api/v1/applications", <<"/","a","p","i","/","v","1","/","c","l","o","u","d",".","r","a","v","e","l","l","o","s","y","s","t","e","m","s",".","c","o","m","/","a","p","i","/","v","1","/","a","p","p","l","i","c","a","t","i","o","n","s">>>>,
      <<"/api/v1/cloud.ravellosystems.com/api/v1/applications/42", <<"/","a","p","i","/","v","1","/","c","l","o","u","d",".","r","a","v","e","l","l","o","s","y","s","t","e","m","s",".","c","o","m","/","a","p","i","/","v","1","/","a","p","p","l","i","c","a","t","i","o","n","s","/","4","2">>>>,
      <<"/api/v1/cloud.ravellosystems.com/api/v1/applications/42/42", <<"/","a","p","i","/","v","1","/","c","l","o","u","d",".","r","a","v","e","l","l","o","s","y","s","t","e","m","s",".","c","o","m","/","a","p","i","/","v","1","/","a","p","p","l","i","c","a","t","i","o","n","s","/","4","2","/","4","2">>>>,
      <<"/api/v1/cloud.ravellosystems.com/api/v1/applications/42/42/42", <<"/","a","p","i","/","v","1","/","c","l","o","u","d",".","r","a","v","e","l","l","o","s","y","s","t","e","m","s",".","c","o","m","/","a","p","i","/","v","1","/","a","p","p","l","i","c","a","t","i","o","n","s","/","4","2","/","4","2","/","4","2">>>>,
      <<"/api/v1/login", <<"/","a","p","i","/","v","1","/","l","o","g","i","n">>>>,
      <<"/api/v1/login/42", <<"/","a","p","i","/","v","1","/","l","o","g","i","n","/","4","2">>>>,
      <<"/api/v1/logout", <<"/","a","p","i","/","v","1","/","l","o","g","o","u","t">>>>,
      <<"/api/v1/logout/42", <<"/","a","p","i","/","v","1","/","l","o","g","o","u","t","/","4","2">>>>,
      <<"/api/v1api/v1/applications/42", <<"/","a","p","i","/","v","1","a","p","i","/","v","1","/","a","p","p","l","i","c","a","t","i","o","n","s","/","4","2">>>>,
      <<"/api/v1api/v1/applications/42/42", <<"/","a","p","i","/","v","1","a","p","i","/","v","1","/","a","p","p","l","i","c","a","t","i","o","n","s","/","4","2","/","4","2">>>>,
      <<"/api/v1ttps://cloud.ravellosystems.com/api/v1/applications", <<"/","a","p","i","/","v","1","t","t","p","s",":","/","/","c","l","o","u","d",".","r","a","v","e","l","l","o","s","y","s","t","e","m","s",".","c","o","m","/","a","p","i","/","v","1","/","a","p","p","l","i","c","a","t","i","o","n","s">>>>,
      <<"/api/v1ttps://cloud.ravellosystems.com/api/v1/applications/42", <<"/","a","p","i","/","v","1","t","t","p","s",":","/","/","c","l","o","u","d",".","r","a","v","e","l","l","o","s","y","s","t","e","m","s",".","c","o","m","/","a","p","i","/","v","1","/","a","p","p","l","i","c","a","t","i","o","n","s","/","4","2">>>>,
      <<"/api/v1ttps://cloud.ravellosystems.com/api/v1/applications/42/42", <<"/","a","p","i","/","v","1","t","t","p","s",":","/","/","c","l","o","u","d",".","r","a","v","e","l","l","o","s","y","s","t","e","m","s",".","c","o","m","/","a","p","i","/","v","1","/","a","p","p","l","i","c","a","t","i","o","n","s","/","4","2","/","4","2">>>>,
      <<"/api/v1ttps://cloud.ravellosystems.com/api/v1/applications/42/42/42", <<"/","a","p","i","/","v","1","t","t","p","s",":","/","/","c","l","o","u","d",".","r","a","v","e","l","l","o","s","y","s","t","e","m","s",".","c","o","m","/","a","p","i","/","v","1","/","a","p","p","l","i","c","a","t","i","o","n","s","/","4","2","/","4","2","/","4","2">>>>,
      <<"/applications", <<"/","a","p","p","l","i","c","a","t","i","o","n","s">>>>,
      <<"/applications/0", <<"/","a","p","p","l","i","c","a","t","i","o","n","s","/","0">>>>,
      <<"/applications/0/0", <<"/","a","p","p","l","i","c","a","t","i","o","n","s","/","0","/","0">>>>,
      <<"/applications/0/42", <<"/","a","p","p","l","i","c","a","t","i","o","n","s","/","0","/","4","2">>>>,
      <<"/applications/0/7", <<"/","a","p","p","l","i","c","a","t","i","o","n","s","/","0","/","7">>>>,
      <<"/applications/42", <<"/","a","p","p","l","i","c","a","t","i","o","n","s","/","4","2">>>>,
      <<"/applications/42/0", <<"/","a","p","p","l","i","c","a","t","i","o","n","s","/","4","2","/","0">>>>,
      <<"/applications/42/0/0", <<"/","a","p","p","l","i","c","a","t","i","o","n","s","/","4","2","/","0","/","0">>>>,
      <<"/applications/42/0/42", <<"/","a","p","p","l","i","c","a","t","i","o","n","s","/","4","2","/","0","/","4","2">>>>,
      <<"/applications/42/0/7", <<"/","a","p","p","l","i","c","a","t","i","o","n","s","/","4","2","/","0","/","7">>>>,
      <<"/applications/42/42", <<"/","a","p","p","l","i","c","a","t","i","o","n","s","/","4","2","/","4","2">>>>,
      <<"/applications/42/42/0", <<"/","a","p","p","l","i","c","a","t","i","o","n","s","/","4","2","/","4","2","/","0">>>>,
      <<"/applications/42/42/42", <<"/","a","p","p","l","i","c","a","t","i","o","n","s","/","4","2","/","4","2","/","4","2">>>>,
      <<"/applications/42/42/7", <<"/","a","p","p","l","i","c","a","t","i","o","n","s","/","4","2","/","4","2","/","7">>>>,
      <<"/applications/42/7", <<"/","a","p","p","l","i","c","a","t","i","o","n","s","/","4","2","/","7">>>>,
      <<"/applications/42/7/0", <<"/","a","p","p","l","i","c","a","t","i","o","n","s","/","4","2","/","7","/","0">>>>,
      <<"/applications/42/7/42", <<"/","a","p","p","l","i","c","a","t","i","o","n","s","/","4","2","/","7","/","4","2">>>>,
      <<"/applications/42/7/7", <<"/","a","p","p","l","i","c","a","t","i","o","n","s","/","4","2","/","7","/","7">>>>,
      <<"/applications/7", <<"/","a","p","p","l","i","c","a","t","i","o","n","s","/","7">>>>,
      <<"/applications/7/0", <<"/","a","p","p","l","i","c","a","t","i","o","n","s","/","7","/","0">>>>,
      <<"/applications/7/42", <<"/","a","p","p","l","i","c","a","t","i","o","n","s","/","7","/","4","2">>>>,
      <<"/applications/7/7", <<"/","a","p","p","l","i","c","a","t","i","o","n","s","/","7","/","7">>>>,
      <<"/cloud.ravellosystems.com/api/v1/applications", <<"/","c","l","o","u","d",".","r","a","v","e","l","l","o","s","y","s","t","e","m","s",".","c","o","m","/","a","p","i","/","v","1","/","a","p","p","l","i","c","a","t","i","o","n","s">>>>,
      <<"/cloud.ravellosystems.com/api/v1/applications/0", <<"/","c","l","o","u","d",".","r","a","v","e","l","l","o","s","y","s","t","e","m","s",".","c","o","m","/","a","p","i","/","v","1","/","a","p","p","l","i","c","a","t","i","o","n","s","/","0">>>>,
      <<"/cloud.ravellosystems.com/api/v1/applications/0/42", <<"/","c","l","o","u","d",".","r","a","v","e","l","l","o","s","y","s","t","e","m","s",".","c","o","m","/","a","p","i","/","v","1","/","a","p","p","l","i","c","a","t","i","o","n","s","/","0","/","4","2">>>>,
      <<"/cloud.ravellosystems.com/api/v1/applications/42", <<"/","c","l","o","u","d",".","r","a","v","e","l","l","o","s","y","s","t","e","m","s",".","c","o","m","/","a","p","i","/","v","1","/","a","p","p","l","i","c","a","t","i","o","n","s","/","4","2">>>>,
      <<"/cloud.ravellosystems.com/api/v1/applications/42/0", <<"/","c","l","o","u","d",".","r","a","v","e","l","l","o","s","y","s","t","e","m","s",".","c","o","m","/","a","p","i","/","v","1","/","a","p","p","l","i","c","a","t","i","o","n","s","/","4","2","/","0">>>>,
      <<"/cloud.ravellosystems.com/api/v1/applications/42/0/42", <<"/","c","l","o","u","d",".","r","a","v","e","l","l","o","s","y","s","t","e","m","s",".","c","o","m","/","a","p","i","/","v","1","/","a","p","p","l","i","c","a","t","i","o","n","s","/","4","2","/","0","/","4","2">>>>,
      <<"/cloud.ravellosystems.com/api/v1/applications/42/42", <<"/","c","l","o","u","d",".","r","a","v","e","l","l","o","s","y","s","t","e","m","s",".","c","o","m","/","a","p","i","/","v","1","/","a","p","p","l","i","c","a","t","i","o","n","s","/","4","2","/","4","2">>>>,
      <<"/cloud.ravellosystems.com/api/v1/applications/42/42/0", <<"/","c","l","o","u","d",".","r","a","v","e","l","l","o","s","y","s","t","e","m","s",".","c","o","m","/","a","p","i","/","v","1","/","a","p","p","l","i","c","a","t","i","o","n","s","/","4","2","/","4","2","/","0">>>>,
      <<"/cloud.ravellosystems.com/api/v1/applications/42/42/42", <<"/","c","l","o","u","d",".","r","a","v","e","l","l","o","s","y","s","t","e","m","s",".","c","o","m","/","a","p","i","/","v","1","/","a","p","p","l","i","c","a","t","i","o","n","s","/","4","2","/","4","2","/","4","2">>>>,
      <<"/cloud.ravellosystems.com/api/v1/applications/42/42/7", <<"/","c","l","o","u","d",".","r","a","v","e","l","l","o","s","y","s","t","e","m","s",".","c","o","m","/","a","p","i","/","v","1","/","a","p","p","l","i","c","a","t","i","o","n","s","/","4","2","/","4","2","/","7">>>>,
      <<"/cloud.ravellosystems.com/api/v1/applications/42/7", <<"/","c","l","o","u","d",".","r","a","v","e","l","l","o","s","y","s","t","e","m","s",".","c","o","m","/","a","p","i","/","v","1","/","a","p","p","l","i","c","a","t","i","o","n","s","/","4","2","/","7">>>>,
      <<"/cloud.ravellosystems.com/api/v1/applications/42/7/42", <<"/","c","l","o","u","d",".","r","a","v","e","l","l","o","s","y","s","t","e","m","s",".","c","o","m","/","a","p","i","/","v","1","/","a","p","p","l","i","c","a","t","i","o","n","s","/","4","2","/","7","/","4","2">>>>,
      <<"/cloud.ravellosystems.com/api/v1/applications/7", <<"/","c","l","o","u","d",".","r","a","v","e","l","l","o","s","y","s","t","e","m","s",".","c","o","m","/","a","p","i","/","v","1","/","a","p","p","l","i","c","a","t","i","o","n","s","/","7">>>>,
      <<"/cloud.ravellosystems.com/api/v1/applications/7/42", <<"/","c","l","o","u","d",".","r","a","v","e","l","l","o","s","y","s","t","e","m","s",".","c","o","m","/","a","p","i","/","v","1","/","a","p","p","l","i","c","a","t","i","o","n","s","/","7","/","4","2">>>>,
      <<"/cloud.ravellosystems.com/api/v1/cloud.ravellosystems.com/api/v1/applications", <<"/","c","l","o","u","d",".","r","a","v","e","l","l","o","s","y","s","t","e","m","s",".","c","o","m","/","a","p","i","/","v","1","/","c","l","o","u","d",".","r","a","v","e","l","l","o","s","y","s","t","e","m","s",".","c","o","m","/","a","p","i","/","v","1","/","a","p","p","l","i","c","a","t","i","o","n","s">>>>,
      <<"/cloud.ravellosystems.com/api/v1/cloud.ravellosystems.com/api/v1/applications/42", <<"/","c","l","o","u","d",".","r","a","v","e","l","l","o","s","y","s","t","e","m","s",".","c","o","m","/","a","p","i","/","v","1","/","c","l","o","u","d",".","r","a","v","e","l","l","o","s","y","s","t","e","m","s",".","c","o","m","/","a","p","i","/","v","1","/","a","p","p","l","i","c","a","t","i","o","n","s","/","4","2">>>>,
      <<"/cloud.ravellosystems.com/api/v1/cloud.ravellosystems.com/api/v1/applications/42/42", <<"/","c","l","o","u","d",".","r","a","v","e","l","l","o","s","y","s","t","e","m","s",".","c","o","m","/","a","p","i","/","v","1","/","c","l","o","u","d",".","r","a","v","e","l","l","o","s","y","s","t","e","m","s",".","c","o","m","/","a","p","i","/","v","1","/","a","p","p","l","i","c","a","t","i","o","n","s","/","4","2","/","4","2">>>>,
      <<"/cloud.ravellosystems.com/api/v1/cloud.ravellosystems.com/api/v1/applications/42/42/42", <<"/","c","l","o","u","d",".","r","a","v","e","l","l","o","s","y","s","t","e","m","s",".","c","o","m","/","a","p","i","/","v","1","/","c","l","o","u","d",".","r","a","v","e","l","l","o","s","y","s","t","e","m","s",".","c","o","m","/","a","p","i","/","v","1","/","a","p","p","l","i","c","a","t","i","o","n","s","/","4","2","/","4","2","/","4","2">>>>,
      <<"/cloud.ravellosystems.com/api/v1/login", <<"/","c","l","o","u","d",".","r","a","v","e","l","l","o","s","y","s","t","e","m","s",".","c","o","m","/","a","p","i","/","v","1","/","l","o","g","i","n">>>>,
      <<"/cloud.ravellosystems.com/api/v1/login/42", <<"/","c","l","o","u","d",".","r","a","v","e","l","l","o","s","y","s","t","e","m","s",".","c","o","m","/","a","p","i","/","v","1","/","l","o","g","i","n","/","4","2">>>>,
      <<"/cloud.ravellosystems.com/api/v1/logout", <<"/","c","l","o","u","d",".","r","a","v","e","l","l","o","s","y","s","t","e","m","s",".","c","o","m","/","a","p","i","/","v","1","/","l","o","g","o","u","t">>>>,
      <<"/cloud.ravellosystems.com/api/v1/logout/42", <<"/","c","l","o","u","d",".","r","a","v","e","l","l","o","s","y","s","t","e","m","s",".","c","o","m","/","a","p","i","/","v","1","/","l","o","g","o","u","t","/","4","2">>>>,
      <<"/cloud.ravellosystems.com/api/v1api/v1/applications/42", <<"/","c","l","o","u","d",".","r","a","v","e","l","l","o","s","y","s","t","e","m","s",".","c","o","m","/","a","p","i","/","v","1","a","p","i","/","v","1","/","a","p","p","l","i","c","a","t","i","o","n","s","/","4","2">>>>,
      <<"/cloud.ravellosystems.com/api/v1api/v1/applications/42/42", <<"/","c","l","o","u","d",".","r","a","v","e","l","l","o","s","y","s","t","e","m","s",".","c","o","m","/","a","p","i","/","v","1","a","p","i","/","v","1","/","a","p","p","l","i","c","a","t","i","o","n","s","/","4","2","/","4","2">>>>,
      <<"/cloud.ravellosystems.com/api/v1ttps://cloud.ravellosystems.com/api/v1/applications", <<"/","c","l","o","u","d",".","r","a","v","e","l","l","o","s","y","s","t","e","m","s",".","c","o","m","/","a","p","i","/","v","1","t","t","p","s",":","/","/","c","l","o","u","d",".","r","a","v","e","l","l","o","s","y","s","t","e","m","s",".","c","o","m","/","a","p","i","/","v","1","/","a","p","p","l","i","c","a","t","i","o","n","s">>>>,
      <<"/cloud.ravellosystems.com/api/v1ttps://cloud.ravellosystems.com/api/v1/applications/42", <<"/","c","l","o","u","d",".","r","a","v","e","l","l","o","s","y","s","t","e","m","s",".","c","o","m","/","a","p","i","/","v","1","t","t","p","s",":","/","/","c","l","o","u","d",".","r","a","v","e","l","l","o","s","y","s","t","e","m","s",".","c","o","m","/","a","p","i","/","v","1","/","a","p","p","l","i","c","a","t","i","o","n","s","/","4","2">>>>,
      <<"/cloud.ravellosystems.com/api/v1ttps://cloud.ravellosystems.com/api/v1/applications/42/42", <<"/","c","l","o","u","d",".","r","a","v","e","l","l","o","s","y","s","t","e","m","s",".","c","o","m","/","a","p","i","/","v","1","t","t","p","s",":","/","/","c","l","o","u","d",".","r","a","v","e","l","l","o","s","y","s","t","e","m","s",".","c","o","m","/","a","p","i","/","v","1","/","a","p","p","l","i","c","a","t","i","o","n","s","/","4","2","/","4","2">>>>,
      <<"/cloud.ravellosystems.com/api/v1ttps://cloud.ravellosystems.com/api/v1/applications/42/42/42", <<"/","c","l","o","u","d",".","r","a","v","e","l","l","o","s","y","s","t","e","m","s",".","c","o","m","/","a","p","i","/","v","1","t","t","p","s",":","/","/","c","l","o","u","d",".","r","a","v","e","l","l","o","s","y","s","t","e","m","s",".","c","o","m","/","a","p","i","/","v","1","/","a","p","p","l","i","c","a","t","i","o","n","s","/","4","2","/","4","2","/","4","2">>>>,
      <<"/login", <<"/","l","o","g","i","n">>>>,
      <<"/login/0", <<"/","l","o","g","i","n","/","0">>>>,
      <<"/login/42", <<"/","l","o","g","i","n","/","4","2">>>>,
      <<"/login/7", <<"/","l","o","g","i","n","/","7">>>>,
      <<"/logout", <<"/","l","o","g","o","u","t">>>>,
      <<"/logout/0", <<"/","l","o","g","o","u","t","/","0">>>>,
      <<"/logout/42", <<"/","l","o","g","o","u","t","/","4","2">>>>,
      <<"/logout/7", <<"/","l","o","g","o","u","t","/","7">>>>,
      <<"/ttps://cloud.ravellosystems.com/api/v1/applications", <<"/","t","t","p","s",":","/","/","c","l","o","u","d",".","r","a","v","e","l","l","o","s","y","s","t","e","m","s",".","c","o","m","/","a","p","i","/","v","1","/","a","p","p","l","i","c","a","t","i","o","n","s">>>>,
      <<"/ttps://cloud.ravellosystems.com/api/v1/applications/42", <<"/","t","t","p","s",":","/","/","c","l","o","u","d",".","r","a","v","e","l","l","o","s","y","s","t","e","m","s",".","c","o","m","/","a","p","i","/","v","1","/","a","p","p","l","i","c","a","t","i","o","n","s","/","4","2">>>>,
      <<"/ttps://cloud.ravellosystems.com/api/v1/applications/42/42", <<"/","t","t","p","s",":","/","/","c","l","o","u","d",".","r","a","v","e","l","l","o","s","y","s","t","e","m","s",".","c","o","m","/","a","p","i","/","v","1","/","a","p","p","l","i","c","a","t","i","o","n","s","/","4","2","/","4","2">>>>,
      <<"/ttps://cloud.ravellosystems.com/api/v1/applications/42/42/42", <<"/","t","t","p","s",":","/","/","c","l","o","u","d",".","r","a","v","e","l","l","o","s","y","s","t","e","m","s",".","c","o","m","/","a","p","i","/","v","1","/","a","p","p","l","i","c","a","t","i","o","n","s","/","4","2","/","4","2","/","4","2">>>>,
      <<"0", <<"0">>>>,
      <<"42", <<"4","2">>>>,
      <<"443", <<"4","4","3">>>>,
      <<"7", <<"7">>>>,
      <<"80", <<"8","0">>>>,
      <<"8443", <<"8","4","4","3">>>>,
      <<":", <<":">>>>,
      <<"://", <<":","/","/">>>>,
      <<"None", <<"N","o","n","e">>>>,
      <<"None:80", <<"N","o","n","e",":","8","0">>>>,
      <<"api/v1/applications/42", <<"a","p","i","/","v","1","/","a","p","p","l","i","c","a","t","i","o","n","s","/","4","2">>>>,
      <<"api/v1/applications/42/0", <<"a","p","i","/","v","1","/","a","p","p","l","i","c","a","t","i","o","n","s","/","4","2","/","0">>>>,
      <<"api/v1/applications/42/42", <<"a","p","i","/","v","1","/","a","p","p","l","i","c","a","t","i","o","n","s","/","4","2","/","4","2">>>>,
      <<"api/v1/applications/42/7", <<"a","p","i","/","v","1","/","a","p","p","l","i","c","a","t","i","o","n","s","/","4","2","/","7">>>>,
      <<"cloud.ravellosystems.com", <<"c","l","o","u","d",".","r","a","v","e","l","l","o","s","y","s","t","e","m","s",".","c","o","m">>>>,
      <<"cloud.ravellosystems.com:443", <<"c","l","o","u","d",".","r","a","v","e","l","l","o","s","y","s","t","e","m","s",".","c","o","m",":","4","4","3">>>>,
      <<"evil.example.org", <<"e","v","i","l",".","e","x","a","m","p","l","e",".","o","r","g">>>>,
      <<"evil.example.org:443", <<"e","v","i","l",".","e","x","a","m","p","l","e",".","o","r","g",":","4","4","3">>>>,
      <<"http", <<"h","t","t","p">>>>,
      <<"http:///api/v1/applications/42", <<"h","t","t","p",":","/","/","/","a","p","i","/","v","1","/","a","p","p","l","i","c","a","t","i","o","n","s","/","4","2">>>>,
      <<"http://lab.example.com:8443", <<"h","t","t","p",":","/","/","l","a","b",".","e","x","a","m","p","l","e",".","c","o","m",":","8","4","4","3">>>>,
      <<"https", <<"h","t","t","p","s">>>>,
      <<"https://cloud.ravellosystems.com/api/v1", <<"h","t","t","p","s",":","/","/","c","l","o","u","d",".","r","a","v","e","l","l","o","s","y","s","t","e","m","s",".","c","o","m","/","a","p","i","/","v","1">>>>,
      <<"https://cloud.ravellosystems.com/api/v1/applications", <<"h","t","t","p","s",":","/","/","c","l","o","u","d",".","r","a","v","e","l","l","o","s","y","s","t","e","m","s",".","c","o","m","/","a","p","i","/","v","1","/","a","p","p","l","i","c","a","t","i","o","n","s">>>>,
      <<"https://cloud.ravellosystems.com/api/v1/applications/0", <<"h","t","t","p","s",":","/","/","c","l","o","u","d",".","r","a","v","e","l","l","o","s","y","s","t","e","m","s",".","c","o","m","/","a","p","i","/","v","1","/","a","p","p","l","i","c","a","t","i","o","n","s","/","0">>>>,
      <<"https://cloud.ravellosystems.com/api/v1/applications/0/0", <<"h","t","t","p","s",":","/","/","c","l","o","u","d",".","r","a","v","e","l","l","o","s","y","s","t","e","m","s",".","c","o","m","/","a","p","i","/","v","1","/","a","p","p","l","i","c","a","t","i","o","n","s","/","0","/","0">>>>,
      <<"https://cloud.ravellosystems.com/api/v1/applications/0/42", <<"h","t","t","p","s",":","/","/","c","l","o","u","d",".","r","a","v","e","l","l","o","s","y","s","t","e","m","s",".","c","o","m","/","a","p","i","/","v","1","/","a","p","p","l","i","c","a","t","i","o","n","s","/","0","/","4","2">>>>,
      <<"https://cloud.ravellosystems.com/api/v1/applications/0/7", <<"h","t","t","p","s",":","/","/","c","l","o","u","d",".","r","a","v","e","l","l","o","s","y","s","t","e","m","s",".","c","o","m","/","a","p","i","/","v","1","/","a","p","p","l","i","c","a","t","i","o","n","s","/","0","/","7">>>>,
      <<"https://cloud.ravellosystems.com/api/v1/applications/42", <<"h","t","t","p","s",":","/","/","c","l","o","u","d",".","r","a","v","e","l","l","o","s","y","s","t","e","m","s",".","c","o","m","/","a","p","i","/","v","1","/","a","p","p","l","i","c","a","t","i","o","n","s","/","4","2">>>>,
      <<"https://cloud.ravellosystems.com/api/v1/applications/42/0", <<"h","t","t","p","s",":","/","/","c","l","o","u","d",".","r","a","v","e","l","l","o","s","y","s","t","e","m","s",".","c","o","m","/","a","p","i","/","v","1","/","a","p","p","l","i","c","a","t","i","o","n","s","/","4","2","/","0">>>>,
      <<"https://cloud.ravellosystems.com/api/v1/applications/42/0/0", <<"h","t","t","p","s",":","/","/","c","l","o","u","d",".","r","a","v","e","l","l","o","s","y","s","t","e","m","s",".","c","o","m","/","a","p","i","/","v","1","/","a","p","p","l","i","c","a","t","i","o","n","s","/","4","2","/","0","/","0">>>>,
      <<"https://cloud.ravellosystems.com/api/v1/applications/42/0/42", <<"h","t","t","p","s",":","/","/","c","l","o","u","d",".","r","a","v","e","l","l","o","s","y","s","t","e","m","s",".","c","o","m","/","a","p","i","/","v","1","/","a","p","p","l","i","c","a","t","i","o","n","s","/","4","2","/","0","/","4","2">>>>,
      <<"https://cloud.ravellosystems.com/api/v1/applications/42/0/7", <<"h","t","t","p","s",":","/","/","c","l","o","u","d",".","r","a","v","e","l","l","o","s","y","s","t","e","m","s",".","c","o","m","/","a","p","i","/","v","1","/","a","p","p","l","i","c","a","t","i","o","n","s","/","4","2","/","0","/","7">>>>,
      <<"https://cloud.ravellosystems.com/api/v1/applications/42/42", <<"h","t","t","p","s",":","/","/","c","l","o","u","d",".","r","a","v","e","l","l","o","s","y","s","t","e","m","s",".","c","o","m","/","a","p","i","/","v","1","/","a","p","p","l","i","c","a","t","i","o","n","s","/","4","2","/","4","2">>>>,
      <<"https://cloud.ravellosystems.com/api/v1/applications/42/42/0", <<"h","t","t","p","s",":","/","/","c","l","o","u","d",".","r","a","v","e","l","l","o","s","y","s","t","e","m","s",".","c","o","m","/","a","p","i","/","v","1","/","a","p","p","l","i","c","a","t","i","o","n","s","/","4","2","/","4","2","/","0">>>>,
      <<"https://cloud.ravellosystems.com/api/v1/applications/42/42/42", <<"h","t","t","p","s",":","/","/","c","l","o","u","d",".","r","a","v","e","l","l","o","s","y","s","t","e","m","s",".","c","o","m","/","a","p","i","/","v","1","/","a","p","p","l","i","c","a","t","i","o","n","s","/","4","2","/","4","2","/","4","2">>>>,
      <<"https://cloud.ravellosystems.com/api/v1/applications/42/42/7", <<"h","t","t","p","s",":","/","/","c","l","o","u","d",".","r","a","v","e","l","l","o","s","y","s","t","e","m","s",".","c","o","m","/","a","p","i","/","v","1","/","a","p","p","l","i","c","a","t","i","o","n","s","/","4","2","/","4","2","/","7">>>>,
      <<"https://cloud.ravellosystems.com/api/v1/applications/42/7", <<"h","t","t","p","s",":","/","/","c","l","o","u","d",".","r","a","v","e","l","l","o","s","y","s","t","e","m","s",".","c","o","m","/","a","p","i","/","v","1","/","a","p","p","l","i","c","a","t","i","o","n","s","/","4","2","/","7">>>>,
      <<"https://cloud.ravellosystems.com/api/v1/applications/42/7/0", <<"h","t","t","p","s",":","/","/","c","l","o","u","d",".","r","a","v","e","l","l","o","s","y","s","t","e","m","s",".","c","o","m","/","a","p","i","/","v","1","/","a","p","p","l","i","c","a","t","i","o","n","s","/","4","2","/","7","/","0">>>>,
      <<"https://cloud.ravellosystems.com/api/v1/applications/42/7/42", <<"h","t","t","p","s",":","/","/","c","l","o","u","d",".","r","a","v","e","l","l","o","s","y","s","t","e","m","s",".","c","o","m","/","a","p","i","/","v","1","/","a","p","p","l","i","c","a","t","i","o","n","s","/","4","2","/","7","/","4","2">>>>,
      <<"https://cloud.ravellosystems.com/api/v1/applications/42/7/7", <<"h","t","t","p","s",":","/","/","c","l","o","u","d",".","r","a","v","e","l","l","o","s","y","s","t","e","m","s",".","c","o","m","/","a","p","i","/","v","1","/","a","p","p","l","i","c","a","t","i","o","n","s","/","4","2","/","7","/","7">>>>,
      <<"https://cloud.ravellosystems.com/api/v1/applications/7", <<"h","t","t","p","s",":","/","/","c","l","o","u","d",".","r","a","v","e","l","l","o","s","y","s","t","e","m","s",".","c","o","m","/","a","p","i","/","v","1","/","a","p","p","l","i","c","a","t","i","o","n","s","/","7">>>>,
      <<"https://cloud.ravellosystems.com/api/v1/applications/7/0", <<"h","t","t","p","s",":","/","/","c","l","o","u","d",".","r","a","v","e","l","l","o","s","y","s","t","e","m","s",".","c","o","m","/","a","p","i","/","v","1","/","a","p","p","l","i","c","a","t","i","o","n","s","/","7","/","0">>>>,
      <<"https://cloud.ravellosystems.com/api/v1/applications/7/42", <<"h","t","t","p","s",":","/","/","c","l","o","u","d",".","r","a","v","e","l","l","o","s","y","s","t","e","m","s",".","c","o","m","/","a","p","i","/","v","1","/","a","p","p","l","i","c","a","t","i","o","n","s","/","7","/","4","2">>>>,
      <<"https://cloud.ravellosystems.com/api/v1/applications/7/7", <<"h","t","t","p","s",":","/","/","c","l","o","u","d",".","r","a","v","e","l","l","o","s","y","s","t","e","m","s",".","c","o","m","/","a","p","i","/","v","1","/","a","p","p","l","i","c","a","t","i","o","n","s","/","7","/","7">>>>,
      <<"https://cloud.ravellosystems.com/api/v1/cloud.ravellosystems.com/api/v1/applications", <<"h","t","t","p","s",":","/","/","c","l","o","u","d",".","r","a","v","e","l","l","o","s","y","s","t","e","m","s",".","c","o","m","/","a","p","i","/","v","1","/","c","l","o","u","d",".","r","a","v","e","l","l","o","s","y","s","t","e","m","s",".","c","o","m","/","a","p","i","/","v","1","/","a","p","p","l","i","c","a","t","i","o","n","s">>>>,
      <<"https://cloud.ravellosystems.com/api/v1/cloud.ravellosystems.com/api/v1/applications/0", <<"h","t","t","p","s",":","/","/","c","l","o","u","d",".","r","a","v","e","l","l","o","s","y","s","t","e","m","s",".","c","o","m","/","a","p","i","/","v","1","/","c","l","o","u","d",".","r","a","v","e","l","l","o","s","y","s","t","e","m","s",".","c","o","m","/","a","p","i","/","v","1","/","a","p","p","l","i","c","a","t","i","o","n","s","/","0">>>>,
      <<"https://cloud.ravellosystems.com/api/v1/cloud.ravellosystems.com/api/v1/applications/42", <<"h","t","t","p","s",":","/","/","c","l","o","u","d",".","r","a","v","e","l","l","o","s","y","s","t","e","m","s",".","c","o","m","/","a","p","i","/","v","1","/","c","l","o","u","d",".","r","a","v","e","l","l","o","s","y","s","t","e","m","s",".","c","o","m","/","a","p","i","/","v","1","/","a","p","p","l","i","c","a","t","i","o","n","s","/","4","2">>>>,
      <<"https://cloud.ravellosystems.com/api/v1/cloud.ravellosystems.com/api/v1/applications/42/0", <<"h","t","t","p","s",":","/","/","c","l","o","u","d",".","r","a","v","e","l","l","o","s","y","s","t","e","m","s",".","c","o","m","/","a","p","i","/","v","1","/","c","l","o","u","d",".","r","a","v","e","l","l","o","s","y","s","t","e","m","s",".","c","o","m","/","a","p","i","/","v","1","/","a","p","p","l","i","c","a","t","i","o","n","s","/","4","2","/","0">>>>,
      <<"https://cloud.ravellosystems.com/api/v1/cloud.ravellosystems.com/api/v1/applications/42/42", <<"h","t","t","p","s",":","/","/","c","l","o","u","d",".","r","a","v","e","l","l","o","s","y","s","t","e","m","s",".","c","o","m","/","a","p","i","/","v","1","/","c","l","o","u","d",".","r","a","v","e","l","l","o","s","y","s","t","e","m","s",".","c","o","m","/","a","p","i","/","v","1","/","a","p","p","l","i","c","a","t","i","o","n","s","/","4","2","/","4","2">>>>,
      <<"https://cloud.ravellosystems.com/api/v1/cloud.ravellosystems.com/api/v1/applications/42/42/0", <<"h","t","t","p","s",":","/","/","c","l","o","u","d",".","r","a","v","e","l","l","o","s","y","s","t","e","m","s",".","c","o","m","/","a","p","i","/","v","1","/","c","l","o","u","d",".","r","a","v","e","l","l","o","s","y","s","t","e","m","s",".","c","o","m","/","a","p","i","/","v","1","/","a","p","p","l","i","c","a","t","i","o","n","s","/","4","2","/","4","2","/","0">>>>,
      <<"https://cloud.ravellosystems.com/api/v1/cloud.ravellosystems.com/api/v1/applications/42/42/42", <<"h","t","t","p","s",":","/","/","c","l","o","u","d",".","r","a","v","e","l","l","o","s","y","s","t","e","m","s",".","c","o","m","/","a","p","i","/","v","1","/","c","l","o","u","d",".","r","a","v","e","l","l","o","s","y","s","t","e","m","s",".","c","o","m","/","a","p","i","/","v","1","/","a","p","p","l","i","c","a","t","i","o","n","s","/","4","2","/","4","2","/","4","2">>>>,
      <<"https://cloud.ravellosystems.com/api/v1/cloud.ravellosystems.com/api/v1/applications/42/42/7", <<"h","t","t","p","s",":","/","/","c","l","o","u","d",".","r","a","v","e","l","l","o","s","y","s","t","e","m","s",".","c","o","m","/","a","p","i","/","v","1","/","c","l","o","u","d",".","r","a","v","e","l","l","o","s","y","s","t","e","m","s",".","c","o","m","/","a","p","i","/","v","1","/","a","p","p","l","i","c","a","t","i","o","n","s","/","4","2","/","4","2","/","7">>>>,
      <<"https://cloud.ravellosystems.com/api/v1/cloud.ravellosystems.com/api/v1/applications/42/7", <<"h","t","t","p","s",":","/","/","c","l","o","u","d",".","r","a","v","e","l","l","o","s","y","s","t","e","m","s",".","c","o","m","/","a","p","i","/","v","1","/","c","l","o","u","d",".","r","a","v","e","l","l","o","s","y","s","t","e","m","s",".","c","o","m","/","a","p","i","/","v","1","/","a","p","p","l","i","c","a","t","i","o","n","s","/","4","2","/","7">>>>,
      <<"https://cloud.ravellosystems.com/api/v1/cloud.ravellosystems.com/api/v1/applications/7", <<"h","t","t","p","s",":","/","/","c","l","o","u","d",".","r","a","v","e","l","l","o","s","y","s","t","e","m","s",".","c","o","m","/","a","p","i","/","v","1","/","c","l","o","u","d",".","r","a","v","e","l","l","o","s","y","s","t","e","m","s",".","c","o","m","/","a","p","i","/","v","1","/","a","p","p","l","i","c","a","t","i","o","n","s","/","7">>>>,
      <<"https://cloud.ravellosystems.com/api/v1/login", <<"h","t","t","p","s",":","/","/","c","l","o","u","d",".","r","a","v","e","l","l","o","s","y","s","t","e","m","s",".","c","o","m","/","a","p","i","/","v","1","/","l","o","g","i","n">>>>,
      <<"https://cloud.ravellosystems.com/api/v1/login/0", <<"h","t","t","p","s",":","/","/","c","l","o","u","d",".","r","a","v","e","l","l","o","s","y","s","t","e","m","s",".","c","o","m","/","a","p","i","/","v","1","/","l","o","g","i","n","/","0">>>>,
      <<"https://cloud.ravellosystems.com/api/v1/login/42", <<"h","t","t","p","s",":","/","/","c","l","o","u","d",".","r","a","v","e","l","l","o","s","y","s","t","e","m","s",".","c","o","m","/","a","p","i","/","v","1","/","l","o","g","i","n","/","4","2">>>>,
      <<"https://cloud.ravellosystems.com/api/v1/login/7", <<"h","t","t","p","s",":","/","/","c","l","o","u","d",".","r","a","v","e","l","l","o","s","y","s","t","e","m","s",".","c","o","m","/","a","p","i","/","v","1","/","l","o","g","i","n","/","7">>>>,
      <<"https://cloud.ravellosystems.com/api/v1/logout", <<"h","t","t","p","s",":","/","/","c","l","o","u","d",".","r","a","v","e","l","l","o","s","y","s","t","e","m","s",".","c","o","m","/","a","p","i","/","v","1","/","l","o","g","o","u","t">>>>,
      <<"https://cloud.ravellosystems.com/api/v1/logout/0", <<"h","t","t","p","s",":","/","/","c","l","o","u","d",".","r","a","v","e","l","l","o","s","y","s","t","e","m","s",".","c","o","m","/","a","p","i","/","v","1","/","l","o","g","o","u","t","/","0">>>>,
      <<"https://cloud.ravellosystems.com/api/v1/logout/42", <<"h","t","t","p","s",":","/","/","c","l","o","u","d",".","r","a","v","e","l","l","o","s","y","s","t","e","m","s",".","c","o","m","/","a","p","i","/","v","1","/","l","o","g","o","u","t","/","4","2">>>>,
      <<"https://cloud.ravellosystems.com/api/v1/logout/7", <<"h","t","t","p","s",":","/","/","c","l","o","u","d",".","r","a","v","e","l","l","o","s","y","s","t","e","m","s",".","c","o","m","/","a","p","i","/","v","1","/","l","o","g","o","u","t","/","7">>>>,
      <<"https://cloud.ravellosystems.com/api/v1api/v1/applications/42", <<"h","t","t","p","s",":","/","/","c","l","o","u","d",".","r","a","v","e","l","l","o","s","y","s","t","e","m","s",".","c","o","m","/","a","p","i","/","v","1","a","p","i","/","v","1","/","a","p","p","l","i","c","a","t","i","o","n","s","/","4","2">>>>,
      <<"https://cloud.ravellosystems.com/api/v1api/v1/applications/42/0", <<"h","t","t","p","s",":","/","/","c","l","o","u","d",".","r","a","v","e","l","l","o","s","y","s","t","e","m","s",".","c","o","m","/","a","p","i","/","v","1","a","p","i","/","v","1","/","a","p","p","l","i","c","a","t","i","o","n","s","/","4","2","/","0">>>>,
      <<"https://cloud.ravellosystems.com/api/v1api/v1/applications/42/42", <<"h","t","t","p","s",":","/","/","c","l","o","u","d",".","r","a","v","e","l","l","o","s","y","s","t","e","m","s",".","c","o","m","/","a","p","i","/","v","1","a","p","i","/","v","1","/","a","p","p","l","i","c","a","t","i","o","n","s","/","4","2","/","4","2">>>>,
      <<"https://cloud.ravellosystems.com/api/v1api/v1/applications/42/7", <<"h","t","t","p","s",":","/","/","c","l","o","u","d",".","r","a","v","e","l","l","o","s","y","s","t","e","m","s",".","c","o","m","/","a","p","i","/","v","1","a","p","i","/","v","1","/","a","p","p","l","i","c","a","t","i","o","n","s","/","4","2","/","7">>>>,
      <<"https://cloud.ravellosystems.com/api/v1ttps://cloud.ravellosystems.com/api/v1/applications", <<"h","t","t","p","s",":","/","/","c","l","o","u","d",".","r","a","v","e","l","l","o","s","y","s","t","e","m","s",".","c","o","m","/","a","p","i","/","v","1","t","t","p","s",":","/","/","c","l","o","u","d",".","r","a","v","e","l","l","o","s","y","s","t","e","m","s",".","c","o","m","/","a","p","i","/","v","1","/","a","p","p","l","i","c","a","t","i","o","n","s">>>>,
      <<"https://cloud.ravellosystems.com/api/v1ttps://cloud.ravellosystems.com/api/v1/applications/0", <<"h","t","t","p","s",":","/","/","c","l","o","u","d",".","r","a","v","e","l","l","o","s","y","s","t","e","m","s",".","c","o","m","/","a","p","i","/","v","1","t","t","p","s",":","/","/","c","l","o","u","d",".","r","a","v","e","l","l","o","s","y","s","t","e","m","s",".","c","o","m","/","a","p","i","/","v","1","/","a","p","p","l","i","c","a","t","i","o","n","s","/","0">>>>,
      <<"https://cloud.ravellosystems.com/api/v1ttps://cloud.ravellosystems.com/api/v1/applications/42", <<"h","t","t","p","s",":","/","/","c","l","o","u","d",".","r","a","v","e","l","l","o","s","y","s","t","e","m","s",".","c","o","m","/","a","p","i","/","v","1","t","t","p","s",":","/","/","c","l","o","u","d",".","r","a","v","e","l","l","o","s","y","s","t","e","m","s",".","c","o","m","/","a","p","i","/","v","1","/","a","p","p","l","i","c","a","t","i","o","n","s","/","4","2">>>>,
      <<"https://cloud.ravellosystems.com/api/v1ttps://cloud.ravellosystems.com/api/v1/applications/42/0", <<"h","t","t","p","s",":","/","/","c","l","o","u","d",".","r","a","v","e","l","l","o","s","y","s","t","e","m","s",".","c","o","m","/","a","p","i","/","v","1","t","t","p","s",":","/","/","c","l","o","u","d",".","r","a","v","e","l","l","o","s","y","s","t","e","m","s",".","c","o","m","/","a","p","i","/","v","1","/","a","p","p","l","i","c","a","t","i","o","n","s","/","4","2","/","0">>>>,
      <<"https://cloud.ravellosystems.com/api/v1ttps://cloud.ravellosystems.com/api/v1/applications/42/42", <<"h","t","t","p","s",":","/","/","c","l","o","u","d",".","r","a","v","e","l","l","o","s","y","s","t","e","m","s",".","c","o","m","/","a","p","i","/","v","1","t","t","p","s",":","/","/","c","l","o","u","d",".","r","a","v","e","l","l","o","s","y","s","t","e","m","s",".","c","o","m","/","a","p","i","/","v","1","/","a","p","p","l","i","c","a","t","i","o","n","s","/","4","2","/","4","2">>>>,
      <<"https://cloud.ravellosystems.com/api/v1ttps://cloud.ravellosystems.com/api/v1/applications/42/42/0", <<"h","t","t","p","s",":","/","/","c","l","o","u","d",".","r","a","v","e","l","l","o","s","y","s","t","e","m","s",".","c","o","m","/","a","p","i","/","v","1","t","t","p","s",":","/","/","c","l","o","u","d",".","r","a","v","e","l","l","o","s","y","s","t","e","m","s",".","c","o","m","/","a","p","i","/","v","1","/","a","p","p","l","i","c","a","t","i","o","n","s","/","4","2","/","4","2","/","0">>>>,
      <<"https://cloud.ravellosystems.com/api/v1ttps://cloud.ravellosystems.com/api/v1/applications/42/42/42", <<"h","t","t","p","s",":","/","/","c","l","o","u","d",".","r","a","v","e","l","l","o","s","y","s","t","e","m","s",".","c","o","m","/","a","p","i","/","v","1","t","t","p","s",":","/","/","c","l","o","u","d",".","r","a","v","e","l","l","o","s","y","s","t","e","m","s",".","c","o","m","/","a","p","i","/","v","1","/","a","p","p","l","i","c","a","t","i","o","n","s","/","4","2","/","4","2","/","4","2">>>>,
      <<"https://cloud.ravellosystems.com/api/v1ttps://cloud.ravellosystems.com/api/v1/applications/42/42/7", <<"h","t","t","p","s",":","/","/","c","l","o","u","d",".","r","a","v","e","l","l","o","s","y","s","t","e","m","s",".","c","o","m","/","a","p","i","/","v","1","t","t","p","s",":","/","/","c","l","o","u","d",".","r","a","v","e","l","l","o","s","y","s","t","e","m","s",".","c","o","m","/","a","p","i","/","v","1","/","a","p","p","l","i","c","a","t","i","o","n","s","/","4","2","/","4","2","/","7">>>>,
      <<"https://cloud.ravellosystems.com/api/v1ttps://cloud.ravellosystems.com/api/v1/applications/42/7", <<"h","t","t","p","s",":","/","/","c","l","o","u","d",".","r","a","v","e","l","l","o","s","y","s","t","e","m","s",".","c","o","m","/","a","p","i","/","v","1","t","t","p","s",":","/","/","c","l","o","u","d",".","r","a","v","e","l","l","o","s","y","s","t","e","m","s",".","c","o","m","/","a","p","i","/","v","1","/","a","p","p","l","i","c","a","t","i","o","n","s","/","4","2","/","7">>>>,
      <<"https://cloud.ravellosystems.com/api/v1ttps://cloud.ravellosystems.com/api/v1/applications/7", <<"h","t","t","p","s",":","/","/","c","l","o","u","d",".","r","a","v","e","l","l","o","s","y","s","t","e","m","s",".","c","o","m","/","a","p","i","/","v","1","t","t","p","s",":","/","/","c","l","o","u","d",".","r","a","v","e","l","l","o","s","y","s","t","e","m","s",".","c","o","m","/","a","p","i","/","v","1","/","a","p","p","l","i","c","a","t","i","o","n","s","/","7">>>>,
      <<"https://evil.example.org/api/v1/applications/42", <<"h","t","t","p","s",":","/","/","e","v","i","l",".","e","x","a","m","p","l","e",".","o","r","g","/","a","p","i","/","v","1","/","a","p","p","l","i","c","a","t","i","o","n","s","/","4","2">>>>,
      <<"lab.example.com", <<"l","a","b",".","e","x","a","m","p","l","e",".","c","o","m">>>>,
      <<"lab.example.com:8443", <<"l","a","b",".","e","x","a","m","p","l","e",".","c","o","m",":","8","4","4","3">>>>,
      <<"none", <<"n","o","n","e">>>>,
      <<"ttps://cloud.ravellosystems.com/api/v1/applications", <<"t","t","p","s",":","/","/","c","l","o","u","d",".","r","a","v","e","l","l","o","s","y","s","t","e","m","s",".","c","o","m","/","a","p","i","/","v","1","/","a","p","p","l","i","c","a","t","i","o","n","s">>>>,
      <<"ttps://cloud.ravellosystems.com/api/v1/applications/0", <<"t","t","p","s",":","/","/","c","l","o","u","d",".","r","a","v","e","l","l","o","s","y","s","t","e","m","s",".","c","o","m","/","a","p","i","/","v","1","/","a","p","p","l","i","c","a","t","i","o","n","s","/","0">>>>,
      <<"ttps://cloud.ravellosystems.com/api/v1/applications/0/42", <<"t","t","p","s",":","/","/","c","l","o","u","d",".","r","a","v","e","l","l","o","s","y","s","t","e","m","s",".","c","o","m","/","a","p","i","/","v","1","/","a","p","p","l","i","c","a","t","i","o","n","s","/","0","/","4","2">>>>,
      <<"ttps://cloud.ravellosystems.com/api/v1/applications/42", <<"t","t","p","s",":","/","/","c","l","o","u","d",".","r","a","v","e","l","l","o","s","y","s","t","e","m","s",".","c","o","m","/","a","p","i","/","v","1","/","a","p","p","l","i","c","a","t","i","o","n","s","/","4","2">>>>,
      <<"ttps://cloud.ravellosystems.com/api/v1/applications/42/0", <<"t","t","p","s",":","/","/","c","l","o","u","d",".","r","a","v","e","l","l","o","s","y","s","t","e","m","s",".","c","o","m","/","a","p","i","/","v","1","/","a","p","p","l","i","c","a","t","i","o","n","s","/","4","2","/","0">>>>,
      <<"ttps://cloud.ravellosystems.com/api/v1/applications/42/0/42", <<"t","t","p","s",":","/","/","c","l","o","u","d",".","r","a","v","e","l","l","o","s","y","s","t","e","m","s",".","c","o","m","/","a","p","i","/","v","1","/","a","p","p","l","i","c","a","t","i","o","n","s","/","4","2","/","0","/","4","2">>>>,
      <<"ttps://cloud.ravellosystems.com/api/v1/applications/42/42", <<"t","t","p","s",":","/","/","c","l","o","u","d",".","r","a","v","e","l","l","o","s","y","s","t","e","m","s",".","c","o","m","/","a","p","i","/","v","1","/","a","p","p","l","i","c","a","t","i","o","n","s","/","4","2","/","4","2">>>>,
      <<"ttps://cloud.ravellosystems.com/api/v1/applications/42/42/0", <<"t","t","p","s",":","/","/","c","l","o","u","d",".","r","a","v","e","l","l","o","s","y","s","t","e","m","s",".","c","o","m","/","a","p","i","/","v","1","/","a","p","p","l","i","c","a","t","i","o","n","s","/","4","2","/","4","2","/","0">>>>,
      <<"ttps://cloud.ravellosystems.com/api/v1/applications/42/42/42", <<"t","t","p","s",":","/","/","c","l","o","u","d",".","r","a","v","e","l","l","o","s","y","s","t","e","m","s",".","c","o","m","/","a","p","i","/","v","1","/","a","p","p","l","i","c","a","t","i","o","n","s","/","4","2","/","4","2","/","4","2">>>>,
      <<"ttps://cloud.ravellosystems.com/api/v1/applications/42/42/7", <<"t","t","p","s",":","/","/","c","l","o","u","d",".","r","a","v","e","l","l","o","s","y","s","t","e","m","s",".","c","o","m","/","a","p","i","/","v","1","/","a","p","p","l","i","c","a","t","i","o","n","s","/","4","2","/","4","2","/","7">>>>,
      <<"ttps://cloud.ravellosystems.com/api/v1/applications/42/7", <<"t","t","p","s",":","/","/","c","l","o","u","d",".","r","a","v","e","l","l","o","s","y","s","t","e","m","s",".","c","o","m","/","a","p","i","/","v","1","/","a","p","p","l","i","c","a","t","i","o","n","s","/","4","2","/","7">>>>,
      <<"ttps://cloud.ravellosystems.com/api/v1/applications/42/7/42", <<"t","t","p","s",":","/","/","c","l","o","u","d",".","r","a","v","e","l","l","o","s","y","s","t","e","m","s",".","c","o","m","/","a","p","i","/","v","1","/","a","p","p","l","i","c","a","t","i","o","n","s","/","4","2","/","7","/","4","2">>>>,
      <<"ttps://cloud.ravellosystems.com/api/v1/applications/7", <<"t","t","p","s",":","/","/","c","l","o","u","d",".","r","a","v","e","l","l","o","s","y","s","t","e","m","s",".","c","o","m","/","a","p","i","/","v","1","/","a","p","p","l","i","c","a","t","i","o","n","s","/","7">>>>,
      <<"ttps://cloud.ravellosystems.com/api/v1/applications/7/42", <<"t","t","p","s",":","/","/","c","l","o","u","d",".","r","a","v","e","l","l","o","s","y","s","t","e","m","s",".","c","o","m","/","a","p","i","/","v","1","/","a","p","p","l","i","c","a","t","i","o","n","s","/","7","/","4","2">>>>,
      <<"ttps://cloud.ravellosystems.com/api/v1/cloud.ravellosystems.com/api/v1/applications", <<"t","t","p","s",":","/","/","c","l","o","u","d",".","r","a","v","e","l","l","o","s","y","s","t","e","m","s",".","c","o","m","/","a","p","i","/","v","1","/","c","l","o","u","d",".","r","a","v","e","l","l","o","s","y","s","t","e","m","s",".","c","o","m","/","a","p","i","/","v","1","/","a","p","p","l","i","c","a","t","i","o","n","s">>>>,
      <<"ttps://cloud.ravellosystems.com/api/v1/cloud.ravellosystems.com/api/v1/applications/42", <<"t","t","p","s",":","/","/","c","l","o","u","d",".","r","a","v","e","l","l","o","s","y","s","t","e","m","s",".","c","o","m","/","a","p","i","/","v","1","/","c","l","o","u","d",".","r","a","v","e","l","l","o","s","y","s","t","e","m","s",".","c","o","m","/","a","p","i","/","v","1","/","a","p","p","l","i","c","a","t","i","o","n","s","/","4","2">>>>,
      <<"ttps://cloud.ravellosystems.com/api/v1/cloud.ravellosystems.com/api/v1/applications/42/42", <<"t","t","p","s",":","/","/","c","l","o","u","d",".","r","a","v","e","l","l","o","s","y","s","t","e","m","s",".","c","o","m","/","a","p","i","/","v","1","/","c","l","o","u","d",".","r","a","v","e","l","l","o","s","y","s","t","e","m","s",".","c","o","m","/","a","p","i","/","v","1","/","a","p","p","l","i","c","a","t","i","o","n","s","/","4","2","/","4","2">>>>,
      <<"ttps://cloud.ravellosystems.com/api/v1/cloud.ravellosystems.com/api/v1/applications/42/42/42", <<"t","t","p","s",":","/","/","c","l","o","u","d",".","r","a","v","e","l","l","o","s","y","s","t","e","m","s",".","c","o","m","/","a","p","i","/","v","1","/","c","l","o","u","d",".","r","a","v","e","l","l","o","s","y","s","t","e","m","s",".","c","o","m","/","a","p","i","/","v","1","/","a","p","p","l","i","c","a","t","i","o","n","s","/","4","2","/","4","2","/","4","2">>>>,
      <<"ttps://cloud.ravellosystems.com/api/v1/login", <<"t","t","p","s",":","/","/","c","l","o","u","d",".","r","a","v","e","l","l","o","s","y","s","t","e","m","s",".","c","o","m","/","a","p","i","/","v","1","/","l","o","g","i","n">>>>,
      <<"ttps://cloud.ravellosystems.com/api/v1/login/42", <<"t","t","p","s",":","/","/","c","l","o","u","d",".","r","a","v","e","l","l","o","s","y","s","t","e","m","s",".","c","o","m","/","a","p","i","/","v","1","/","l","o","g","i","n","/","4","2">>>>,
      <<"ttps://cloud.ravellosystems.com/api/v1/logout", <<"t","t","p","s",":","/","/","c","l","o","u","d",".","r","a","v","e","l","l","o","s","y","s","t","e","m","s",".","c","o","m","/","a","p","i","/","v","1","/","l","o","g","o","u","t">>>>,
      <<"ttps://cloud.ravellosystems.com/api/v1/logout/42", <<"t","t","p","s",":","/","/","c","l","o","u","d",".","r","a","v","e","l","l","o","s","y","s","t","e","m","s",".","c","o","m","/","a","p","i","/","v","1","/","l","o","g","o","u","t","/","4","2">>>>,
      <<"ttps://cloud.ravellosystems.com/api/v1api/v1/applications/42", <<"t","t","p","s",":","/","/","c","l","o","u","d",".","r","a","v","e","l","l","o","s","y","s","t","e","m","s",".","c","o","m","/","a","p","i","/","v","1","a","p","i","/","v","1","/","a","p","p","l","i","c","a","t","i","o","n","s","/","4","2">>>>,
      <<"ttps://cloud.ravellosystems.com/api/v1api/v1/applications/42/42", <<"t","t","p","s",":","/","/","c","l","o","u","d",".","r","a","v","e","l","l","o","s","y","s","t","e","m","s",".","c","o","m","/","a","p","i","/","v","1","a","p","i","/","v","1","/","a","p","p","l","i","c","a","t","i","o","n","s","/","4","2","/","4","2">>>>,
      <<"ttps://cloud.ravellosystems.com/api/v1ttps://cloud.ravellosystems.com/api/v1/applications", <<"t","t","p","s",":","/","/","c","l","o","u","d",".","r","a","v","e","l","l","o","s","y","s","t","e","m","s",".","c","o","m","/","a","p","i","/","v","1","t","t","p","s",":","/","/","c","l","o","u","d",".","r","a","v","e","l","l","o","s","y","s","t","e","m","s",".","c","o","m","/","a","p","i","/","v","1","/","a","p","p","l","i","c","a","t","i","o","n","s">>>>,
      <<"ttps://cloud.ravellosystems.com/api/v1ttps://cloud.ravellosystems.com/api/v1/applications/42", <<"t","t","p","s",":","/","/","c","l","o","u","d",".","r","a","v","e","l","l","o","s","y","s","t","e","m","s",".","c","o","m","/","a","p","i","/","v","1","t","t","p","s",":","/","/","c","l","o","u","d",".","r","a","v","e","l","l","o","s","y","s","t","e","m","s",".","c","o","m","/","a","p","i","/","v","1","/","a","p","p","l","i","c","a","t","i","o","n","s","/","4","2">>>>,
      <<"ttps://cloud.ravellosystems.com/api/v1ttps://cloud.ravellosystems.com/api/v1/applications/42/42", <<"t","t","p","s",":","/","/","c","l","o","u","d",".","r","a","v","e","l","l","o","s","y","s","t","e","m","s",".","c","o","m","/","a","p","i","/","v","1","t","t","p","s",":","/","/","c","l","o","u","d",".","r","a","v","e","l","l","o","s","y","s","t","e","m","s",".","c","o","m","/","a","p","i","/","v","1","/","a","p","p","l","i","c","a","t","i","o","n","s","/","4","2","/","4","2">>>>,
      <<"ttps://cloud.ravellosystems.com/api/v1ttps://cloud.ravellosystems.com/api/v1/applications/42/42/42", <<"t","t","p","s",":","/","/","c","l","o","u","d",".","r","a","v","e","l","l","o","s","y","s","t","e","m","s",".","c","o","m","/","a","p","i","/","v","1","t","t","p","s",":","/","/","c","l","o","u","d",".","r","a","v","e","l","l","o","s","y","s","t","e","m","s",".","c","o","m","/","a","p","i","/","v","1","/","a","p","p","l","i","c","a","t","i","o","n","s","/","4","2","/","4","2","/","4","2">>>>,
      <<"vm", <<"v","m">>>>,
      <<"vm0", <<"v","m","0">>>>,
      <<"vm1", <<"v","m","1">>>>,
      <<"vm2", <<"v","m","2">>>>,
      <<"vm3", <<"v","m","3">>>>,
      <<"vm4", <<"v","m","4">>>>,
      <<"web", <<"w","e","b">>>>,
      <<"web0", <<"w","e","b","0">>>>,
      <<"web1", <<"w","e","b","1">>>>,
      <<"web2", <<"w","e","b","2">>>>,
      <<"web3", <<"w","e","b","3">>>>,
      <<"web4", <<"w","e","b","4">>>> }

\* The characters of the string s, and the string of the characters cs.
Chars(s) == (CHOOSE p \in StrTable : p[1] = s)[2]
Str(cs) == (CHOOSE p \in StrTable : p[2] = cs)[1]

\* s.startswith(p), on characters
StartsWith(s, p) == Len(s) >= Len(p) /\ SubSeq(s, 1, Len(p)) = p

\* s[n:], on characters
Drop(s, n) == IF n >= Len(s) THEN << >> ELSE SubSeq(s, n + 1, Len(s))

\* s[:n], on characters
Take(s, n) == IF n >= Len(s) THEN s ELSE SubSeq(s, 1, n)

\* s.find(p) + 1: the 1-based index of the first occurrence of p, 0 if none
Find(s, p) ==
    LET hits == {i \in 1..Len(s) : StartsWith(Drop(s, i - 1), p)}
    IN  IF hits = {} THEN 0 ELSE CHOOSE i \in hits : \A j \in hits : i <= j

\* s.rfind(p) + 1
RFind(s, p) ==
    LET hits == {i \in 1..Len(s) : StartsWith(Drop(s, i - 1), p)}
    IN  IF hits = {} THEN 0 ELSE CHOOSE i \in hits : \A j \in hits : i >= j

\* a + b
Concat(a, b) == Str(Chars(a) \o Chars(b))

\* s.startswith(p)
startswith(s, p) == StartsWith(Chars(s), Chars(p))

\* s.endswith(p), on characters
EndsWith(s, p) == Len(s) >= Len(p) /\ Drop(s, Len(s) - Len(p)) = p

\* s.endswith(p)
endswith(s, p) == EndsWith(Chars(s), Chars(p))

\* s[len(p):]
SliceFromLen(s, p) == Str(Drop(Chars(s), Len(Chars(p))))

DigitChars == <<"0","1","2","3","4","5","6","7","8","9">>

\* the characters of str(n) for n >= 0
RECURSIVE IntChars(_)
IntChars(n) ==
    IF n < 10 THEN << DigitChars[n + 1] >>
    ELSE IntChars(n \div 10) \o << DigitChars[(n % 10) + 1] >>

\* str(n)
IntToStr(n) == Str(IntChars(n))

DigitVal(c) == (CHOOSE i \in 1..10 : DigitChars[i] = c) - 1

\* int(s) for a sequence of decimal digits
RECURSIVE StrToInt(_)
StrToInt(s) ==
    IF Len(s) = 0 THEN 0
    ELSE 10 * StrToInt(SubSeq(s, 1, Len(s) - 1)) + DigitVal(s[Len(s)])

(***************************************************************************)
(* urllib.parse.urlsplit restricted to URLs without userinfo, query and    *)
(* fragment and with a lower-case host: the scheme, netloc and path of the *)
(* SplitResult, and its hostname and port properties, which Python derives *)
(* from netloc.                                                            *)
(***************************************************************************)
\* The SplitResult of the parts scheme, netloc and path, given as characters.
SplitResult(parts) ==
    [scheme |-> Str(parts[1]), netloc |-> Str(parts[2]), path |-> Str(parts[3])]

\* The path starts at the first '/' after the netloc, at index j of after.
SplitPath(scheme, after, j) ==
    << scheme,
       IF j = 0 THEN after ELSE Take(after, j - 1),
       IF j = 0 THEN << >> ELSE Drop(after, j - 1) >>

\* A netloc is present when what follows the scheme starts with '//'.
SplitNetloc(scheme, rest) ==
    IF StartsWith(rest, <<"/", "/">>)
    THEN SplitPath(scheme, Drop(rest, 2), Find(Drop(rest, 2), <<"/">>))
    ELSE << scheme, << >>, rest >>

\* The scheme ends at the first ':', at index i of u.
SplitScheme(u, i) ==
    IF i > 0 THEN SplitNetloc(Take(u, i - 1), Drop(u, i)) ELSE SplitNetloc(<< >>, u)

SplitChars(u) == SplitScheme(u, Find(u, <<":">>))

urlsplit(url) == SplitResult(SplitChars(Chars(url)))

\* The host of the netloc n, whose last ':' is at index k.
HostChars(n, k) == IF k = 0 THEN n ELSE Take(n, k - 1)

HostOf(n) == IF n = << >> THEN None ELSE Some(Str(HostChars(n, RFind(n, <<":">>))))

\* SplitResult.hostname: None for an empty netloc
hostname(result) == HostOf(Chars(result.netloc))

\* The port of the netloc n, whose last ':' is at index k.
PortChars(n, k) == IF k = 0 \/ k = Len(n) THEN None ELSE Some(StrToInt(Drop(n, k)))

PortOf(n) == PortChars(n, RFind(n, <<":">>))

\* SplitResult.port: None when netloc names no port
port(result) == PortOf(Chars(result.netloc))

\* '{0}'.format(x) for x a string or None
Format(x) == IF IsNone(x) THEN "None" ELSE Val(x)

\* Lines 117-118: the default scheme is put before a URL without '://'.
Prefixed(url, u) ==
    IF Find(u, <<":", "/", "/">>) = 0
    THEN Str(<<"h", "t", "t", "p">> \o <<":", "/", "/">> \o u)
    ELSE url

WithScheme(url) == Prefixed(url, Chars(url))

\* Lines 121-123: the default port of the scheme is put after a netloc
\* without a port.
WithPort(result) ==
    IF IsNone(port(result))
    THEN [result EXCEPT
             !.netloc = Str(Chars(Format(hostname(result))) \o <<":">>
                            \o IntChars(IF result.scheme = "https"
                                        THEN DEFAULT_HTTPS_PORT ELSE DEFAULT_HTTP_PORT))]
    ELSE result

\* Lines 124-125: an empty path becomes '/'.
WithPath(result) == IF result.path = "" THEN [result EXCEPT !.path = "/"] ELSE result

\* urlsplit2(url, default_scheme='http'), lines 112-128
urlsplit2(url) == WithPath(WithPort(urlsplit(WithScheme(url))))

(***************************************************************************)
(* Inputs of the model.                                                    *)
(***************************************************************************)
\* Credentials a caller passes to the constructor or to login().
Users == {"alice"}
Passwords == {"secret"}
Credentials == {<<None, None>>} \cup {<<Some(u), Some(p)>> : u \in Users, p \in Passwords}

\* The calls of the resource layer that the model issues through request():
\* method, path and whether an entity (hence a non-empty body) is passed.
Calls ==
    { [method |-> "GET",    path |-> AppPath,  body |-> FALSE],
      [method |-> "GET",    path |-> AppsPath, body |-> FALSE],
      [method |-> "POST",   path |-> AppsPath, body |-> TRUE],
      [method |-> "PUT",    path |-> AppPath,  body |-> TRUE],
      [method |-> "DELETE", path |-> AppPath,  body |-> FALSE],
      [method |-> "HEAD",   path |-> AppPath,  body |-> FALSE] }

\* http_methods: the methods the transport can dispatch.
http_methods == {"POST", "GET", "PUT", "DELETE"}

\* Status codes a server answers with.
Statuses == {200, 299, 302, 399, 400, 404, 500}

\* Location headers of a redirect: a relative path, an absolute URL on the
\* default endpoint's host, an absolute URL on another host.
RelLocation == "/api/v1/applications/42"
AbsLocation == "https://cloud.ravellosystems.com/api/v1/applications/42"
ForeignLocation == "https://evil.example.org/api/v1/applications/42"
Locations == {None, Some(RelLocation), Some(AbsLocation), Some(ForeignLocation)}

\* Set-Cookie headers of a response: absent, a header that holds no cookie,
\* or a session cookie followed by a Path attribute.  A header is a sequence
\* of name=value items.
SessionCookies == {"s1", "s2"}
SetCookieHeader(v) == << <<"JSESSIONID", v>>, <<"Path", "/">> >>
SetCookies == {None, Some(<< >>)} \cup {Some(SetCookieHeader(v)) : v \in SessionCookies}

\* ERROR-CODE and ERROR-MESSAGE headers of a response.
ErrorCodes == {None, Some("E42")}
ErrorMessages == {None, Some("quota exceeded")}

(***************************************************************************)
(* http.cookies.SimpleCookie: load() of a Set-Cookie header keeps the      *)
(* name=value items that are cookies and folds the reserved attributes     *)
(* (Path, Domain, ...) into the cookie before them; the jar is the         *)
(* sequence of its (key, coded value) pairs.                               *)
(***************************************************************************)
ReservedAttrs == {"Path", "Domain", "Expires", "Max-Age", "Secure", "HttpOnly"}

SimpleCookie_load(header) == SelectSeq(header, LAMBDA item : item[1] \notin ReservedAttrs)

\* '; '.join('{0}={1}'.format(c.key, c.coded_value) ...): the Cookie header
CookieHeader(jar) == [i \in 1..Len(jar) |-> <<jar[i][1], "=", jar[i][2]>>]

(***************************************************************************)
(* JSON entities.  A dict is a record of optional fields (None: the key is *)
(* absent); an entity is nothing (no application/json body), one dict, or  *)
(* a list of dicts.                                                        *)
(***************************************************************************)
Dict(id, name) == [id |-> id, name |-> name, href |-> None]

NoEntity == [kind |-> "none", items |-> << >>]
DictEntity(d) == [kind |-> "dict", items |-> << d >>]
ListEntity(ds) == [kind |-> "list", items |-> ds]

Entities ==
    { NoEntity,
      DictEntity(Dict(Some(42), Some("app"))),
      DictEntity(Dict(Some(0), Some("app"))),
      DictEntity(Dict(None, Some("app"))),
      ListEntity(<< Dict(Some(7), Some("vm0")), Dict(None, Some("vm1")),
                    Dict(Some(0), Some("vm2")) >>) }

\* isinstance(entity, dict) and entity.get('id')
HasTruthyId(entity) ==
    /\ entity.kind = "dict"
    /\ ~IsNone(entity.items[1].id)
    /\ Val(entity.items[1].id) # 0

\* Content-Location headers of a response.
ContentLocations == {None, Some(Concat(default_url, AppPath))}

(***************************************************************************)
(* Outcomes of one HTTP dispatch (lines 345-349): socket.timeout, a body   *)
(* announced as application/json that json() cannot parse (ValueError,     *)
(* raised before the status is classified), or a response.  A header       *)
(* varies where the code reads it, Set-Cookie in _login, Location in the   *)
(* 3xx branch and for a dict with an id, Content-Location for a dict with  *)
(* an id, the ERROR-* headers in the error branch, and, both location      *)
(* headers, for a list.                                                    *)
(***************************************************************************)
Reply(kind, status, entity, cloc, loc, setcookie, ecode, emsg) ==
    [kind |-> kind, status |-> status, entity |-> entity, cloc |-> cloc,
     loc |-> loc, setcookie |-> setcookie, ecode |-> ecode, emsg |-> emsg]

NoReply == Reply("none", 0, NoEntity, None, None, None, None, None)

\* Variant of IsNotFound with a plausible slip: 404 handled like any 4xx.
IsNotFound_Never(status) == FALSE

\* Variant of headers_get with a plausible slip: the default is dropped.
headers_get_NoDefault(header, default) == IF IsNone(header) THEN "None" ELSE Val(header)

\* The status tests of lines 353, 369 and 381.
IsSuccess(status) == 200 <= status /\ status < 299
IsRedirect(status) == 300 <= status /\ status < 399
IsNotFound(status) == status = 404

\* response.headers.get(key, default), lines 384-385
headers_get(header, default) == IF IsNone(header) THEN default ELSE Val(header)

Outcomes(login) ==
    LET scs == IF login THEN SetCookies ELSE {None}
        plain == {x \in Entities : IF login THEN x = NoEntity
                                  ELSE ~HasTruthyId(x) /\ x.kind # "list"}
        withid == {x \in Entities : HasTruthyId(x) \/ (~login /\ x.kind = "list")}
        clocs == IF login THEN {None} ELSE ContentLocations
        locs == IF login THEN {None} ELSE {None, Some(RelLocation)}
    IN  { Reply("timeout", 0, NoEntity, None, None, None, None, None),
          Reply("badbody", 200, NoEntity, None, None, None, None, None) }
        \cup { Reply("response", st, e, None, None, sc, None, None) :
                 st \in {x \in Statuses : IsSuccess(x) \/ IsNotFound(x)},
                 e \in plain, sc \in scs }
        \cup { Reply("response", st, e, cl, loc, sc, None, None) :
                 st \in {x \in Statuses : IsSuccess(x)},
                 e \in withid, cl \in clocs, loc \in locs,
                 sc \in scs }
        \cup { Reply("response", st, NoEntity, None, loc, sc, None, None) :
                 st \in {x \in Statuses : IsRedirect(x)},
                 loc \in Locations, sc \in scs }
        \cup { Reply("response", st, NoEntity, None, None, None, ec, em) :
                 st \in {x \in Statuses : ~IsSuccess(x) /\ ~IsRedirect(x) /\ ~IsNotFound(x)},
                 ec \in ErrorCodes, em \in ErrorMessages }

(***************************************************************************)
(* State.  The fields of the RavelloClient instance, the frames of the     *)
(* _request calls in progress (the request itself and, above it, the       *)
(* POST /login of an automatic or explicit login), and a record of the     *)
(* public call in progress or last finished: the dispatch last made, the   *)
(* outcome last received, the cookies held when that outcome arrived, the  *)
(* number of dispatches and how the call ended.                            *)
(***************************************************************************)
VARIABLES
    username,     \* self._username: None or Some(name)
    password,     \* self._password
    retries,      \* self.retries
    redirects,    \* self.redirects
    autologin,    \* self._autologin
    cookies,      \* self._cookies: None or Some(jar)
    user_info,    \* self._user_info: None or Some(entity)
    url,          \* self._url, the endpoint as split by urlsplit2
    pc,           \* "idle", or "wait": a dispatch is in flight
    op,           \* the public method in progress or last finished
    stack,        \* frames of _request, the innermost last
    call,         \* its method, path and body
    entry,        \* the session state when it was called
    sent,         \* the dispatch last made in this call
    reply,        \* the outcome last received in this call
    answered,     \* the dispatch which that outcome answers
    pre,          \* the client's cookies when that outcome arrived
    ndispatch,    \* dispatches of the request itself in this call
    nlogin,       \* dispatches of POST /login in this call
    seen,         \* the classes of the outcomes of the request's dispatches
    result,       \* how the call ended
    obj,          \* the record passed to reload(): None or Some(record)
    origin,       \* where that record came from
    now,          \* the clock, what time.time() returns
    wait,         \* the arguments and locals of wait_for()
    args,         \* the arguments of a module-level function under check
    ret           \* what that function returned or raised

vars == <<username, password, retries, redirects, autologin, cookies, user_info,
          url, pc, op, stack, call, entry, sent, reply, answered, pre, ndispatch, nlogin, seen, result,
          obj, origin, now, wait, args, ret>>

\* The state as one record, so that the code between two dispatches is a
\* function from state to state.
Cur ==
    [username |-> username, password |-> password, retries |-> retries,
     redirects |-> redirects, autologin |-> autologin, cookies |-> cookies,
     user_info |-> user_info, url |-> url, pc |-> pc, op |-> op, stack |-> stack,
     call |-> call, entry |-> entry, sent |-> sent, reply |-> reply,
     answered |-> answered, pre |-> pre, ndispatch |-> ndispatch,
     nlogin |-> nlogin, seen |-> seen, result |-> result, obj |-> obj,
     origin |-> origin, now |-> now, wait |-> wait]

Becomes(s) ==
    /\ username' = s.username
    /\ password' = s.password
    /\ retries' = s.retries
    /\ redirects' = s.redirects
    /\ autologin' = s.autologin
    /\ cookies' = s.cookies
    /\ user_info' = s.user_info
    /\ url' = s.url
    /\ pc' = s.pc
    /\ op' = s.op
    /\ stack' = s.stack
    /\ call' = s.call
    /\ entry' = s.entry
    /\ sent' = s.sent
    /\ answered' = s.answered
    /\ reply' = s.reply
    /\ pre' = s.pre
    /\ ndispatch' = s.ndispatch
    /\ nlogin' = s.nlogin
    /\ seen' = s.seen
    /\ result' = s.result
    /\ obj' = s.obj
    /\ origin' = s.origin
    /\ now' = s.now
    /\ wait' = s.wait
    /\ UNCHANGED <<args, ret>>

\* How a public call ended: not yet, a returned value, or a raised exception
\* with its message and, for 'got status', the status, code and message.
\* inlogin: the exception was raised by _login or by its POST /login.
NoResult ==
    [kind |-> "none", exc |-> "", msg |-> "", detail |-> None, value |-> NoEntity,
     inlogin |-> FALSE]
Returned(entity) ==
    [kind |-> "return", exc |-> "", msg |-> "", detail |-> None, value |-> entity,
     inlogin |-> FALSE]
Raised(exc, msg, detail, inlogin) ==
    [kind |-> "raise", exc |-> exc, msg |-> msg, detail |-> detail, value |-> NoEntity,
     inlogin |-> inlogin]

\* The headers of a dispatch: Accept always, the others when set.
Hdict(auth, ctype, cookie) ==
    [Accept |-> "application/json", Authorization |-> auth, ContentType |-> ctype,
     Cookie |-> cookie]

NoDispatch == [method |-> "", url |-> "", hdict |-> Hdict(None, None, None), login |-> FALSE]

(***************************************************************************)
(* Properties of the client (lines 231-244).                               *)
(***************************************************************************)
connected(s) == ~IsNone(s.cookies)
have_credentials(s) == ~IsNone(s.username) /\ ~IsNone(s.password)
logged_in(s) == ~IsNone(s.cookies)

\* Variants of _idempotent with a plausible slip: PUT forgotten, POST added.
_idempotent_WithoutPut(method) == method \in {"GET", "HEAD"}
_idempotent_WithPost(method) == method \in {"GET", "HEAD", "PUT", "POST"}

\* _idempotent(method)
_idempotent(method) == method \in {"GET", "HEAD", "PUT"}

\* close(): drop the cookies, no network call
close(s) == IF ~connected(s) THEN s ELSE [s EXCEPT !.cookies = None]

(***************************************************************************)
(* Frames of _request: its locals.                                         *)
(***************************************************************************)
Top(s) == s.stack[Len(s.stack)]
Pop(s) == [s EXCEPT !.stack = SubSeq(s.stack, 1, Len(s.stack) - 1)]
SetTop(s, f) == [s EXCEPT !.stack[Len(s.stack)] = f]

\* _request, lines 329-336: the locals before the loop.  The Authorization
\* header stands for 'Basic ' + base64(username:password).
NewFrame(s, method, path, body, auth, login) ==
    [method |-> method, path |-> path,
     rpath |-> Concat(s.url.path, path),
     abpath |-> Concat(default_url, path),
     hdict |-> Hdict(auth, IF body THEN Some("application/json") ELSE None, None),
     retries |-> 0, redirects |-> 0, login |-> login, response |-> None]

\* An exception no frame catches: it ends the public call.  RavelloError,
\* RuntimeError, KeyError and AttributeError are caught nowhere in the class.
Raise(s, exc, msg, detail) ==
    [s EXCEPT !.pc = "idle", !.stack = << >>,
              !.result = Raised(exc, msg, detail, s.stack # << >> /\ Top(s).login)]

\* A public method returns.
Finish(s, value) ==
    [s EXCEPT !.pc = "idle", !.stack = << >>, !.result = Returned(value)]

(***************************************************************************)
(* Lines 353-368: the _href annotation of a 2xx entity.                    *)
(***************************************************************************)
\* Variant of ElemHref with a plausible slip: abpath in the place of path.
ElemHref_FromAbpath(f, d) == Str(Chars(f.abpath) \o <<"/">> \o IntChars(Val(d.id)))

\* Line 368: '{0}/{1}'.format(path, elem['id'])
ElemHref(f, d) == Str(Chars(f.path) \o <<"/">> \o IntChars(Val(d.id)))

Annotate(s, f, o) ==
    LET entity == o.entity
        d      == entity.items[1]
        href   == IF ~IsNone(o.cloc) THEN urlsplit2(Val(o.cloc)).path
                  ELSE IF ~IsNone(o.loc) THEN urlsplit2(Val(o.loc)).path
                  ELSE IF f.method = "POST"
                  THEN Str(Chars(f.abpath) \o <<"/">> \o IntChars(Val(d.id)))
                  ELSE f.abpath
    IN  IF HasTruthyId(entity)
        THEN DictEntity([d EXCEPT !.href = Some(SliceFromLen(href, s.url.path))])
        ELSE IF entity.kind = "list"
        THEN ListEntity([i \in 1..Len(entity.items) |->
                 IF ~IsNone(entity.items[i].id)
                 THEN [entity.items[i] EXCEPT !.href = Some(ElemHref(f, entity.items[i]))]
                 ELSE entity.items[i]])
        ELSE entity

\* The class of an outcome, as HTTP defines the classes.
Class(o) ==
    IF o.kind # "response" THEN o.kind
    ELSE IF 200 <= o.status /\ o.status <= 299 THEN "2xx"
    ELSE IF 300 <= o.status /\ o.status <= 399 THEN "3xx"
    ELSE IF o.status = 404 THEN "404"
    ELSE "error"

(***************************************************************************)
(* The engine: RavelloClient._request (lines 328-401) with _login (lines   *)
(* 284-296) and the callers of _request.                                   *)
(***************************************************************************)
RECURSIVE LoopTop(_), _login(_), Send(_), AfterLoop(_), Return(_, _)

\* Variant of LoopTop with a plausible slip: <= in the place of < in the
\* test of the retry counter.
LoopTop_OneMore(s) ==
    IF Top(s).retries <= s.retries /\ Top(s).redirects < s.redirects
    THEN IF ~logged_in(s) /\ have_credentials(s) /\ s.autologin
         THEN _login(s)
         ELSE Send(s)
    ELSE AfterLoop(s)

\* Lines 337-339: the loop test and the automatic login.
LoopTop(s) ==
    IF Top(s).retries < s.retries /\ Top(s).redirects < s.redirects
    THEN IF ~logged_in(s) /\ have_credentials(s) /\ s.autologin
         THEN _login(s)
         ELSE Send(s)
    ELSE AfterLoop(s)

\* _login, lines 285-292: up to the call of _request('POST', '/login').
_login(s) ==
    IF ~have_credentials(s)
    THEN Raise(s, "RuntimeError", "no credentials set", None)
    ELSE LET s1 == [s EXCEPT !.autologin = FALSE]
             auth == Some(<<"Basic", Val(s.username), Val(s.password)>>)
             f == NewFrame(s1, "POST", LoginPath, FALSE, auth, TRUE)
         IN  LoopTop([s1 EXCEPT !.stack = Append(@, f)])

\* Variant of Send with a plausible slip: the cookies are not attached.
Send_WithoutCookies(s) ==
    IF Top(s).method \notin http_methods
    THEN Raise(s, "KeyError", Top(s).method, None)
    ELSE [s EXCEPT !.pc = "wait",
                   !.sent = [method |-> Top(s).method, url |-> Top(s).abpath,
                             hdict |-> Top(s).hdict, login |-> Top(s).login],
                   !.ndispatch = IF Top(s).login THEN @ ELSE @ + 1,
                   !.nlogin = IF Top(s).login THEN @ + 1 ELSE @]

\* Lines 340-345: attach the cookies and dispatch.
Send(s) ==
    LET f  == Top(s)
        hd == IF ~IsNone(s.cookies) /\ Val(s.cookies) # << >>
              THEN [f.hdict EXCEPT !.Cookie = Some(CookieHeader(Val(s.cookies)))]
              ELSE f.hdict
        s1 == SetTop(s, [f EXCEPT !.hdict = hd])
    IN  IF f.method \notin http_methods
        THEN Raise(s1, "KeyError", f.method, None)
        ELSE [s1 EXCEPT !.pc = "wait",
                        !.sent = [method |-> f.method, url |-> f.abpath, hdict |-> hd,
                                  login |-> f.login],
                        !.ndispatch = IF f.login THEN @ ELSE @ + 1,
                        !.nlogin = IF f.login THEN @ + 1 ELSE @]

\* Lines 397-401: after the loop.
AfterLoop(s) ==
    IF Top(s).retries = s.retries
    THEN Raise(s, "RavelloError", "maximum number of retries reached", None)
    ELSE IF Top(s).redirects = s.redirects
    THEN Raise(s, "RavelloError", "maximum number of redirects reached", None)
    ELSE IF IsNone(Top(s).response)
    THEN Raise(s, "UnboundLocalError", "response", None)
    ELSE Return(s, Val(Top(s).response))

\* _request returns response to its caller: _login (lines 293-296, then
\* back in the loop of the outer _request at line 340, or back in login()),
\* request() (line 326) and, around it, logout() (line 303).
Return(s, response) ==
    IF Top(s).login
    THEN LET s1 == [Pop(s) EXCEPT !.cookies = Some(<< >>)]
         IN  IF IsNone(response.setcookie)
             THEN [Raise(s1, "AttributeError", "'NoneType' object has no attribute 'items'", None)
                      EXCEPT !.result.inlogin = TRUE]
             ELSE LET s2 == [s1 EXCEPT !.cookies = Some(SimpleCookie_load(Val(response.setcookie))),
                                       !.autologin = TRUE,
                                       !.user_info = Some(response.entity)]
                  IN  IF s2.stack # << >> THEN Send(s2) ELSE Finish(s2, NoEntity)
    ELSE IF s.op = "logout"
    THEN Finish([s EXCEPT !.cookies = None], NoEntity)
    ELSE Finish(s, response.entity)

\* Lines 346-396: the outcome of the dispatch arrives.
Respond(s0, o) ==
    LET f == Top(s0)
        s == [s0 EXCEPT !.reply = o, !.answered = s0.sent, !.pre = s0.cookies,
                        !.seen = IF f.login THEN @ ELSE @ \cup {Class(o)}]
        broken(g, entity) ==
            AfterLoop(SetTop(s, [g EXCEPT !.response = Some([o EXCEPT !.entity = entity])]))
    IN  IF o.kind \in {"timeout", "badbody"}
        THEN IF ~_idempotent(f.method)
             THEN Raise(close(s), "RavelloError", "request timeout", None)
             ELSE LoopTop(SetTop(close(s), [f EXCEPT !.retries = @ + 1]))
        ELSE IF IsSuccess(o.status)
        THEN broken(f, Annotate(s, f, o))
        ELSE IF IsRedirect(o.status)
        THEN IF IsNone(o.loc)
             THEN Raise(s, "RavelloError", "no location for response", Some(<<o.status>>))
             ELSE IF startswith(Val(o.loc), "/")
             THEN broken([f EXCEPT !.rpath = Val(o.loc), !.redirects = @ + 1], o.entity)
             ELSE IF urlsplit2(Val(o.loc)).netloc # s.url.netloc
             THEN Raise(s, "RavelloError", "will not chase referral", None)
             ELSE broken([f EXCEPT !.rpath = urlsplit2(Val(o.loc)).path,
                                   !.redirects = @ + 1], o.entity)
        ELSE IF IsNotFound(o.status)
        THEN broken(f, NoEntity)
        ELSE Raise(s, "RavelloError", "got status",
                   Some(<<o.status, headers_get(o.ecode, "unknown"),
                          headers_get(o.emsg, "unknown")>>))

(***************************************************************************)
(* The public methods.  Each starts a new record of the call.              *)
(***************************************************************************)
Snapshot(s) == [cookies |-> s.cookies, autologin |-> s.autologin]

NoCall == [method |-> "", path |-> "", body |-> FALSE]

\* Where the record passed to reload() came from: the URL and the method of
\* the dispatch whose response held it, whether that response had neither a
\* Content-Location nor a Location header, and whether the record was an
\* element of a list.
NoOrigin == [url |-> "", method |-> "", bare |-> FALSE, list |-> FALSE]

\* wait_for(obj, cond, timeout): its arguments, its locals end_time and obj
\* (the record as last reloaded), the clock when it was called, the number
\* of reloads and of sleeps so far and whether the last reload that
\* returned satisfied cond.
NoWait ==
    [timeout |-> None, cond |-> [t |-> "none"], obj |-> NoEntity, start |-> 0,
     end_time |-> None, polls |-> 0, sleeps |-> 0, matched |-> FALSE]

Start(s, name) ==
    [s EXCEPT !.op = name, !.stack = << >>, !.sent = NoDispatch, !.reply = NoReply,
              !.call = NoCall, !.entry = Snapshot(s), !.answered = NoDispatch,
              !.pre = s.cookies, !.ndispatch = 0, !.nlogin = 0, !.seen = {},
              !.result = NoResult, !.obj = None, !.origin = NoOrigin, !.wait = NoWait]

\* request(method, path, entity), lines 323-325
request(s, c) ==
    LoopTop([Start(s, "request") EXCEPT
                !.call = c,
                !.stack = << NewFrame(s, c.method, c.path, c.body, None, FALSE) >>])

\* The records a caller holds after request() has returned: the record
\* itself or the elements of the list.
Held(s) ==
    IF s.op = "request" /\ s.result.kind = "return"
    THEN {s.result.value.items[i] : i \in 1..Len(s.result.value.items)}
    ELSE {}

\* reload(obj), lines 409-412, for a record held after the last request()
reload(s, o) ==
    LET s1 == [Start(s, "reload") EXCEPT
                  !.obj = Some(o),
                  !.origin = [url |-> s.sent.url, method |-> s.call.method,
                              bare |-> IsNone(s.reply.cloc) /\ IsNone(s.reply.loc),
                              list |-> s.result.value.kind = "list"]]
    IN  IF IsNone(o.href)
        THEN Raise(s1, "RuntimeError", "obj must have an \"_href\" key", None)
        ELSE LoopTop([s1 EXCEPT
                         !.call = [method |-> "GET", path |-> Val(o.href), body |-> FALSE],
                         !.stack = << NewFrame(s, "GET", Val(o.href), FALSE, None, FALSE) >>])

\* login(username, password), lines 276-282
login(s, u, p) ==
    IF logged_in(s)
    THEN Raise(Start(s, "login"), "RuntimeError", "already logged in", None)
    ELSE _login([Start(s, "login") EXCEPT
                    !.call = [method |-> "POST", path |-> LoginPath, body |-> FALSE],
                    !.username = IF IsNone(u) THEN @ ELSE u,
                    !.password = IF IsNone(p) THEN @ ELSE p])

\* logout(), lines 300-302
logout(s) ==
    IF ~logged_in(s)
    THEN Finish(Start(s, "logout"), NoEntity)
    ELSE LoopTop([Start(s, "logout") EXCEPT
                     !.call = [method |-> "POST", path |-> LogoutPath, body |-> FALSE],
                     !.stack = << NewFrame(s, "POST", LogoutPath, FALSE, None, FALSE) >>])

\* connect(url) with _set_url, lines 251-254 and 262-263
connect(s, u) ==
    IF connected(s)
    THEN Raise(Start(s, "connect"), "RuntimeError", "cannot change URL when connected", None)
    ELSE Finish([Start(s, "connect") EXCEPT !.url = urlsplit2(u)], NoEntity)

(***************************************************************************)
(* Init: the client as __init__ leaves it (lines 211-223), for the         *)
(* arguments a caller may pass.                                            *)
(***************************************************************************)
InitClient ==
    /\ \E c \in Credentials : username = c[1] /\ password = c[2]
    /\ retries \in (0..MaxRetries) \cup {default_retries}
    /\ redirects = default_redirects
    /\ autologin = TRUE
    /\ cookies = None
    /\ user_info = None
    /\ url \in {urlsplit2(u) : u \in Urls}
    /\ pc = "idle"
    /\ op = "init"
    /\ stack = << >>
    /\ call = NoCall
    /\ entry = [cookies |-> None, autologin |-> TRUE]
    /\ sent = NoDispatch
    /\ reply = NoReply
    /\ answered = NoDispatch
    /\ pre = None
    /\ ndispatch = 0
    /\ nlogin = 0
    /\ seen = {}
    /\ result = NoResult
    /\ obj = None
    /\ origin = NoOrigin
    /\ now = 0
    /\ wait = NoWait

\* No module-level function is under check.
NoArgs == [f |-> "none"]
NoRet == [done |-> FALSE]

Init ==
    /\ InitClient
    /\ args = NoArgs
    /\ ret = NoRet

(***************************************************************************)
(* Actions.                                                                *)
(***************************************************************************)
Request ==
    /\ pc = "idle"
    /\ \E c \in Calls : Becomes(request(Cur, c))

Login ==
    /\ pc = "idle"
    /\ \E c \in Credentials : Becomes(login(Cur, c[1], c[2]))

Logout ==
    /\ pc = "idle"
    /\ Becomes(logout(Cur))

Close ==
    /\ pc = "idle"
    /\ Becomes(Finish(close(Start(Cur, "close")), NoEntity))

Connect ==
    /\ pc = "idle"
    /\ \E u \in Urls : Becomes(connect(Cur, u))

Reload ==
    /\ pc = "idle"
    /\ \E o \in Held(Cur) : Becomes(reload(Cur, o))

\* A caller sets the public attribute redirects (line 215).
SetRedirects ==
    /\ pc = "idle"
    /\ \E n \in 0..MaxRedirects :
          Becomes(Finish([Start(Cur, "configure") EXCEPT !.redirects = n], NoEntity))

\* The transport delivers the outcome of the dispatch in flight, which
\* Respond records in reply.
Receive ==
    /\ pc = "wait"
    /\ \E o \in Outcomes(Top(Cur).login) : reply' = o /\ Becomes(Respond(Cur, o))

Next ==
    \/ Request
    \/ Login
    \/ Logout
    \/ Close
    \/ Connect
    \/ SetRedirects
    \/ Receive

Spec == Init /\ [][Next]_vars

\* The transport passes timeout=self.timeout to every dispatch (line 345):
\* a dispatch in flight returns or times out.  This is weak fairness of
\* Receive, WF_vars(Receive), written with the state predicate that
\* ENABLED <<Receive>>_vars equals: Receive can happen exactly when a
\* dispatch is in flight, and it always changes the state.
DispatchesEnd == []<>(pc # "wait") \/ []<><<Receive>>_vars

\* Termination of request(): a caller of the default endpoint issues
\* requests and sets the limit of redirects.
InitFair == Init /\ url = urlsplit2(default_url)

NextFair ==
    \/ Request
    \/ SetRedirects
    \/ Receive

SpecFair == InitFair /\ [][NextFair]_vars /\ DispatchesEnd

(***************************************************************************)
(* The self-links: a caller without credentials, hence without a session,  *)
(* issues requests and reloads the records they return.                    *)
(***************************************************************************)
InitReload == Init /\ IsNone(username)

NextReload ==
    \/ Request
    \/ Reload
    \/ Receive

SpecReload == InitReload /\ [][NextReload]_vars

(***************************************************************************)
(* Python values as the module-level functions see them: None, integers,   *)
(* strings, lists, dicts (their items in insertion order) and callables    *)
(* (by name); a call returns a value or raises.                            *)
(***************************************************************************)
PyNone == [t |-> "none"]
PyBool(b) == [t |-> "bool", b |-> b]
PyInt(n) == [t |-> "int", n |-> n]
PyStr(s) == [t |-> "str", s |-> s]
PyList(elems) == [t |-> "list", elems |-> elems]
PyDict(items) == [t |-> "dict", items |-> items]
PyFn(f) == [t |-> "fn", f |-> f]
PyRaise(exc) == [t |-> "raise", exc |-> exc]

\* bool(v)
Truthy(v) ==
    CASE v.t = "none" -> FALSE
      [] v.t = "bool" -> v.b
      [] v.t = "int"  -> v.n # 0
      [] v.t = "str"  -> v.s # ""
      [] v.t = "list" -> v.elems # << >>
      [] v.t = "dict" -> v.items # << >>
      [] OTHER        -> TRUE

\* key in d
HasKey(d, k) == \E i \in 1..Len(d.items) : d.items[i][1] = k

\* d[k] for a key of d
Item(d, k) == d.items[CHOOSE i \in 1..Len(d.items) : d.items[i][1] = k][2]

\* d.get(k)
dict_get(d, k) == IF HasKey(d, k) THEN Item(d, k) ELSE PyNone

\* The callables a caller passes as a filter or as a value of one:
\*   named_web = lambda o: o['name'] == 'web'
\*   is_one    = lambda v: v == 1
Callables == {"named_web", "is_one"}

Apply(f, x) ==
    IF f = "named_web"
    THEN IF x.t # "dict" THEN PyRaise("TypeError")
         ELSE IF ~HasKey(x, "name") THEN PyRaise("KeyError")
         ELSE PyBool(Item(x, "name") = PyStr("web"))
    ELSE PyBool(x = PyInt(1))

(***************************************************************************)
(* _match_filter(obj, flt), lines 136-155.                                 *)
(***************************************************************************)
RECURSIVE _match_filter(_, _), MatchKeys(_, _), MatchList(_, _)

\* Lines 149-150, after the recursive call has returned r
MatchNested(r, o, rest) ==
    IF r.t = "raise" THEN r
    ELSE IF ~Truthy(r) THEN PyBool(FALSE)
    ELSE MatchKeys(o, rest)

\* Lines 146-154: one key of the filter, obval = obj.get(fkey)
MatchKey(o, fval, obval, rest) ==
    IF obval = PyNone THEN PyBool(FALSE)
    ELSE IF fval.t = "dict"
    THEN IF obval.t # "dict" THEN PyBool(FALSE)
         ELSE MatchNested(_match_filter(obval, fval), o, rest)
    ELSE IF fval.t = "fn" THEN Apply(fval.f, obval)
    ELSE IF fval # obval THEN PyBool(FALSE)
    ELSE MatchKeys(o, rest)

\* Lines 144-155: the loop over the items of the filter that are left
MatchKeys(o, items) ==
    IF items = << >> THEN PyBool(TRUE)
    ELSE IF o.t # "dict" THEN PyRaise("AttributeError")
    ELSE MatchKey(o, Head(items)[2], dict_get(o, Head(items)[1]), Tail(items))

\* Line 143: an element e with the result r of its match, before the
\* elements kept from the rest of the list
MatchElem(e, r, kept) ==
    IF r.t = "raise" THEN r
    ELSE IF kept.t = "raise" THEN kept
    ELSE IF Truthy(r) THEN PyList(<< e >> \o kept.elems)
    ELSE kept

\* Line 143: the list comprehension
MatchList(elems, flt) ==
    IF elems = << >> THEN PyList(<< >>)
    ELSE MatchElem(Head(elems), _match_filter(Head(elems), flt), MatchList(Tail(elems), flt))

_match_filter(o, flt) ==
    IF flt.t = "fn" THEN Apply(flt.f, o)
    ELSE IF flt.t # "dict" THEN PyRaise("TypeError")
    ELSE IF o.t = "list" THEN MatchList(o.elems, flt)
    ELSE MatchKeys(o, flt.items)

(***************************************************************************)
(* The matcher on its own: records and lists of records as the API returns *)
(* them (a JSON null is None), and the filters a caller passes.            *)
(***************************************************************************)
RecWeb ==
    PyDict(<< <<"name", PyStr("web")>>, <<"state", PyStr("STARTED")>>, <<"owner", PyNone>> >>)
RecDb ==
    PyDict(<< <<"name", PyStr("db")>>, <<"state", PyStr("STOPPED")>>, <<"n", PyInt(1)>> >>)
RecCfg ==
    PyDict(<< <<"name", PyStr("web")>>, <<"n", PyInt(2)>>,
              <<"cfg", PyDict(<< <<"cpus", PyInt(1)>>, <<"disk", PyNone>> >>)>> >>)
RecEmpty == PyDict(<< >>)

FilterObjects ==
    { RecWeb, RecDb, RecCfg, RecEmpty,
      PyList(<< >>), PyList(<< RecWeb, RecDb >>), PyList(<< RecDb, RecCfg, RecWeb >>),
      PyList(<< RecEmpty, RecWeb >>) }

Filters ==
    { PyDict(<< >>),
      PyDict(<< <<"name", PyStr("web")>> >>),
      PyDict(<< <<"state", PyStr("STARTED")>>, <<"name", PyStr("web")>> >>),
      PyDict(<< <<"name", PyStr("web")>>, <<"n", PyInt(2)>> >>),
      PyDict(<< <<"owner", PyNone>> >>),
      PyDict(<< <<"cfg", PyDict(<< <<"cpus", PyInt(1)>> >>)>>, <<"name", PyStr("web")>> >>),
      PyDict(<< <<"cfg", PyDict(<< <<"cpus", PyInt(2)>> >>)>> >>),
      PyDict(<< <<"name", PyDict(<< <<"first", PyStr("w")>> >>)>> >>),
      PyDict(<< <<"n", PyFn("is_one")>>, <<"name", PyStr("web")>> >>),
      PyDict(<< <<"name", PyStr("web")>>, <<"n", PyFn("is_one")>> >>),
      PyFn("named_web"),
      PyStr("web") }

InitFilter ==
    /\ InitClient
    /\ IsNone(username)
    /\ retries = default_retries
    /\ url = urlsplit2(default_url)
    /\ args \in [f : {"_match_filter"}, obj : FilterObjects, flt : Filters]
    /\ ret = NoRet

\* _match_filter(obj, flt) is called and returns or raises.
Match ==
    /\ args.f = "_match_filter"
    /\ ~ret.done
    /\ ret' = [done |-> TRUE, value |-> _match_filter(args.obj, args.flt)]
    /\ UNCHANGED <<username, password, retries, redirects, autologin, cookies, user_info,
                   url, pc, op, stack, call, entry, sent, reply, answered, pre, ndispatch,
                   nlogin, seen, result, obj, origin, now, wait, args>>

SpecFilter == InitFilter /\ [][Match]_vars

(***************************************************************************)
(* new_name(existing, prefix), lines 89-109.                               *)
(***************************************************************************)
\* '{0}{1}'.format(prefix, i), line 106
format(prefix, i) == PyStr(Str(Chars(prefix) \o IntChars(i)))

ExistingName_NoRecords(x) == x

\* what the first loop adds to names for the element x, lines 100-104;
\* name['name'] raises KeyError for a record without that key
ExistingName(x) ==
    IF x.t = "dict"
    THEN IF HasKey(x, "name") THEN Item(x, "name") ELSE PyRaise("KeyError")
    ELSE x

\* names after the first loop, lines 99-104
NamesOf(existing) == { ExistingName(existing[k]) : k \in 1..Len(existing) }

\* The second loop from its i-th turn, lines 105-108: n is the last value
\* of range(len(names)+1); the turn that finds a free name breaks, and the
\* last turn leaves its name assigned whether or not it is free.
RECURSIVE NameLoop(_, _, _, _)
NameLoop(names, prefix, i, n) ==
    IF format(prefix, i) \notin names \/ i = n
    THEN format(prefix, i)
    ELSE NameLoop(names, prefix, i + 1, n)

FirstFree(names, prefix) == NameLoop(names, prefix, 0, Cardinality(names))

new_name(existing, prefix) ==
    IF \E k \in 1..Len(existing) : ExistingName(existing[k]).t = "raise"
    THEN PyRaise("KeyError")
    ELSE FirstFree(NamesOf(existing), prefix)

\* The longest sequence of existing names a caller passes.
MaxExisting == 3

\* The elements of existing: names, and records as the "get all" calls
\* return them, one of them without a name.
NameItems ==
    { PyStr("vm0"), PyStr("vm1"), PyStr("vm2"), PyStr("web0"),
      PyDict(<< <<"name", PyStr("vm0")>> >>),
      PyDict(<< <<"id", PyInt(7)>>, <<"name", PyStr("vm1")>> >>),
      PyDict(<< <<"name", PyStr("web")>>, <<"state", PyStr("STARTED")>> >>),
      PyDict(<< <<"id", PyInt(0)>> >>) }

Prefixes == {"vm", "web"}

Existing == UNION { [1..n -> NameItems] : n \in 0..MaxExisting }

InitNames ==
    /\ InitClient
    /\ IsNone(username)
    /\ retries = default_retries
    /\ url = urlsplit2(default_url)
    /\ args \in [f : {"new_name"}, existing : Existing, prefix : Prefixes]
    /\ ret = NoRet

\* new_name(existing, prefix) is called and returns or raises.
NewName ==
    /\ args.f = "new_name"
    /\ ~ret.done
    /\ ret' = [done |-> TRUE, value |-> new_name(args.existing, args.prefix)]
    /\ UNCHANGED <<username, password, retries, redirects, autologin, cookies, user_info,
                   url, pc, op, stack, call, entry, sent, reply, answered, pre, ndispatch,
                   nlogin, seen, result, obj, origin, now, wait, args>>

SpecNames == InitNames /\ [][NewName]_vars

(***************************************************************************)
(* application_state(app), lines 75-86.  set() keeps each state once and   *)
(* list(set(...)) lists them in an order that depends on the hashes of the *)
(* strings: any order can come out.                                        *)
(***************************************************************************)
\* app.get('deployment', {})
Deployment(app) ==
    IF HasKey(app, "deployment") THEN Item(app, "deployment") ELSE PyDict(<< >>)

\* .get('vms', []): None has no get
Vms(dep) ==
    IF dep.t # "dict" THEN PyRaise("AttributeError")
    ELSE IF HasKey(dep, "vms") THEN Item(dep, "vms")
    ELSE PyList(<< >>)

\* set(vm['state'] for vm in ...), as a value with the set in elems
VmStates(vms) ==
    IF vms.t = "raise" THEN vms
    ELSE IF vms.t # "list" THEN PyRaise("TypeError")
    ELSE IF \E i \in 1..Len(vms.elems) : ~HasKey(vms.elems[i], "state")
    THEN PyRaise("KeyError")
    ELSE [t |-> "set", elems |-> { Item(vms.elems[i], "state") : i \in 1..Len(vms.elems) }]

\* list(S): the elements of the set S, each once, in any order
Orders(S) ==
    { q \in [1..Cardinality(S) -> S] : \A i, j \in 1..Cardinality(S) : i # j => q[i] # q[j] }

\* Variant of Consolidate with a plausible slip: the single state stays in its list.
Consolidate_ListOfOne(S) ==
    IF Cardinality(S) > 0 THEN { PyList(q) : q \in Orders(S) } ELSE { PyNone }

\* Line 86: the values the return expression can have for the set S
Consolidate(S) ==
    IF Cardinality(S) > 1 THEN { PyList(q) : q \in Orders(S) }
    ELSE IF Cardinality(S) = 1 THEN S
    ELSE { PyNone }

Consolidated(states) == IF states.t = "raise" THEN { states } ELSE Consolidate(states.elems)

\* what application_state(app) can return or raise
application_state(app) == Consolidated(VmStates(Vms(Deployment(app))))

\* The most VMs of an application.
MaxVms == 3

\* VMs as an application lists them, one of them without a state.
VmRecords ==
    { PyDict(<< <<"name", PyStr("vm")>>, <<"state", PyStr(st)>> >>) :
        st \in {"STARTED", "STOPPED", "STARTING"} }
    \cup { PyDict(<< <<"name", PyStr("vm")>> >>) }

\* Applications as get_application() returns them: a design only, a
\* deployment that is null, one without VMs, one with up to MaxVms VMs.
Apps ==
    { PyDict(<< <<"name", PyStr("app")>> >>),
      PyDict(<< <<"name", PyStr("app")>>, <<"deployment", PyNone>> >>),
      PyDict(<< <<"name", PyStr("app")>>, <<"deployment", PyDict(<< >>)>> >>) }
    \cup { PyDict(<< <<"name", PyStr("app")>>,
                     <<"deployment", PyDict(<< <<"vms", PyList(vms)>> >>)>> >>) :
             vms \in UNION { [1..n -> VmRecords] : n \in 0..MaxVms } }

InitApps ==
    /\ InitClient
    /\ IsNone(username)
    /\ retries = default_retries
    /\ url = urlsplit2(default_url)
    /\ args \in [f : {"application_state"}, app : Apps]
    /\ ret = NoRet

\* application_state(app) is called and returns or raises.
AppState ==
    /\ args.f = "application_state"
    /\ ~ret.done
    /\ \E v \in application_state(args.app) : ret' = [done |-> TRUE, value |-> v]
    /\ UNCHANGED <<username, password, retries, redirects, autologin, cookies, user_info,
                   url, pc, op, stack, call, entry, sent, reply, answered, pre, ndispatch,
                   nlogin, seen, result, obj, origin, now, wait, args>>

SpecApps == InitApps /\ [][AppState]_vars

(***************************************************************************)
(* wait_for(obj, cond, timeout), lines 432-439.  It blocks in the dispatch *)
(* of its reload and in time.sleep(5).  Time passes while it blocks, and   *)
(* the clock may or may not have moved between two statements.             *)
(***************************************************************************)
\* Bounds: the longest timeout a caller passes, the longest a response
\* takes to arrive.
MaxTimeout == 10
MaxElapsed == 2

\* time.sleep(5), line 437
SleepTime == 5

\* The timeout argument: absent, or a number of time units.
Timeouts == {None} \cup {Some(t) : t \in {1, SleepTime, MaxTimeout}}

\* What the clock advances by between two statements.
Gaps == {0, 1}

\* What the clock advances by while a dispatch is in flight: the call
\* timeout when it times out.
Elapsed(o) == IF o.kind = "timeout" THEN {default_timeout} ELSE 0..MaxElapsed

\* The cond argument: a map or a callable.
Conds == { PyDict(<< <<"name", PyStr("web")>> >>), PyFn("named_web") }

\* The record a caller passes: one that the API returned, with its _href,
\* and one without.
WaitRecords ==
    { DictEntity([Dict(Some(42), Some("app")) EXCEPT !.href = Some(AppPath)]),
      DictEntity(Dict(Some(42), Some("app"))) }

\* What the server answers to the reloads: the record, in the awaited
\* state or not, with its location in Content-Location; no such record; an
\* error; nothing in time.
WaitOutcomes ==
    { Reply("timeout", 0, NoEntity, None, None, None, None, None),
      Reply("response", 404, NoEntity, None, None, None, None, None),
      Reply("response", 500, NoEntity, None, None, None, None, None) }
    \cup { Reply("response", 200, DictEntity(Dict(Some(42), Some(n))),
                 Some(Concat(default_url, AppPath)), None, None, None, None) :
             n \in {"app", "web"} }

\* An entity as a Python value.
ToPyDict(d) ==
    PyDict((IF IsNone(d.id) THEN << >> ELSE << <<"id", PyInt(Val(d.id))>> >>)
           \o (IF IsNone(d.name) THEN << >> ELSE << <<"name", PyStr(Val(d.name))>> >>)
           \o (IF IsNone(d.href) THEN << >> ELSE << <<"_href", PyStr(Val(d.href))>> >>))

ToPy(entity) ==
    IF entity.kind = "none" THEN PyNone
    ELSE IF entity.kind = "dict" THEN ToPyDict(entity.items[1])
    ELSE PyList([i \in 1..Len(entity.items) |-> ToPyDict(entity.items[i])])

\* Lines 438-439: the clock is read, e after the last reading.
EndCheck(s, e) ==
    IF Val(s.wait.end_time) < s.now + e
    THEN Raise([s EXCEPT !.now = @ + e], "RavelloError", "timeout waiting for condition", None)
    ELSE Finish([s EXCEPT !.now = @ + e], NoEntity)

\* Line 434: reload(obj), up to its dispatch.
Poll(s) ==
    IF s.wait.obj.kind # "dict"
    THEN Raise(s, "AttributeError", "object has no attribute 'get'", None)
    ELSE [reload(s, s.wait.obj.items[1]) EXCEPT
             !.op = "wait_for", !.wait = [s.wait EXCEPT !.polls = @ + 1]]

\* Line 433: the loop test, on the clock as just read; e is what the clock
\* advances by until line 438 reads it.
Loop(s, e) == IF Val(s.wait.end_time) > s.now THEN Poll(s) ELSE EndCheck(s, e)

\* wait_for(obj, cond, timeout), line 432 and on to the first dispatch;
\* e1 and e2 are what the clock advances by before lines 433 and 438.
wait_for(s, o, c, timeout, e1, e2) ==
    IF IsNone(timeout)
    THEN Raise([Start(s, "wait_for") EXCEPT
                   !.wait = [NoWait EXCEPT !.cond = c, !.obj = o, !.start = s.now]],
               "TypeError", "unsupported operand type(s) for +: 'float' and 'NoneType'", None)
    ELSE Loop([Start(s, "wait_for") EXCEPT
                  !.wait = [NoWait EXCEPT !.timeout = timeout, !.cond = c, !.obj = o,
                                          !.start = s.now,
                                          !.end_time = Some(s.now + Val(timeout))],
                  !.now = @ + e1], e2)

\* Lines 435-437 with r = _match_filter(obj, cond), obj the entity that the
\* reload returned.
Matched(s, r, e) ==
    IF r.t = "raise" THEN Raise(s, r.exc, "", None)
    ELSE IF Truthy(r) THEN EndCheck([s EXCEPT !.wait.matched = TRUE], e)
    ELSE [s EXCEPT !.pc = "sleep", !.result = NoResult, !.wait.matched = FALSE]

\* Line 434, after the dispatch: the reload is still in flight, has raised,
\* or has returned.
Polled(s, e) ==
    IF s.pc # "idle" \/ s.result.kind # "return" THEN s
    ELSE Matched([s EXCEPT !.wait.obj = s.result.value],
                 _match_filter(ToPy(s.result.value), s.wait.cond), e)

\* A caller calls wait_for, once.
WaitFor ==
    /\ pc = "idle" /\ op = "init"
    /\ \E o \in WaitRecords, c \in Conds, t \in Timeouts, e1 \in Gaps, e2 \in Gaps :
          Becomes(wait_for(Cur, o, c, t, e1, e2))

\* The outcome of the dispatch of a reload arrives, d after the dispatch.
ReceiveWait ==
    /\ pc = "wait" /\ op = "wait_for"
    /\ \E o \in WaitOutcomes, e \in Gaps :
          \E d \in Elapsed(o) :
             Becomes(Polled(Respond([Cur EXCEPT !.now = @ + d], o), e))

\* time.sleep(5) returns, after 5 time units or a little more.
Wake ==
    /\ pc = "sleep"
    /\ \E j \in Gaps, e \in Gaps :
          Becomes(Loop([Cur EXCEPT !.pc = "idle", !.now = @ + SleepTime + j,
                                   !.wait.sleeps = @ + 1], e))

\* A client on the default endpoint, without credentials.
InitWait ==
    /\ Init
    /\ IsNone(username)
    /\ retries = default_retries
    /\ url = urlsplit2(default_url)

NextWait ==
    \/ WaitFor
    \/ ReceiveWait
    \/ Wake

SpecWait == InitWait /\ [][NextWait]_vars

(***************************************************************************)
(* Properties.                                                             *)
(***************************************************************************)
IdempotentMethods == {"GET", "HEAD", "PUT"}
NonIdempotentMethods == {"POST", "DELETE"}

MaxRetriesError == Raised("RavelloError", "maximum number of retries reached", None, FALSE)
MaxRedirectsError == Raised("RavelloError", "maximum number of redirects reached", None, FALSE)
TimeoutError == Raised("RavelloError", "request timeout", None, FALSE)

\* The public call in progress or last finished has ended.
Ended == pc = "idle" /\ result.kind # "none"

\* C1: a request() with an idempotent method, every dispatch of which has
\* timed out and no login of which has failed, has dispatched the request
\* at most `retries` times, has not returned normally, and when it ends it
\* ends with 'maximum number of retries reached' after `retries` dispatches.
C1_RetriesThenFail ==
    (/\ op = "request"
     /\ call.method \in IdempotentMethods
     /\ ndispatch >= 1
     /\ seen = {"timeout"}
     /\ ~result.inlogin)
    => /\ ndispatch <= retries
       /\ result.kind # "return"
       /\ Ended => result = MaxRetriesError /\ ndispatch = retries

\* C1 witness: a PUT by a client with credentials has timed out three times,
\* was logged in again before each retry, and ended with the retries error.
C1_Witness ==
    /\ op = "request" /\ call.method = "PUT"
    /\ retries = 3 /\ ndispatch = 3 /\ nlogin = 3
    /\ seen = {"timeout"}
    /\ result = MaxRetriesError

\* C2: a request() with a non-idempotent method never dispatches the
\* request twice, and once a dispatch of it has timed out or brought an
\* unparseable body the call has ended with the RavelloError 'request
\* timeout' after that single dispatch.
C2_NoRetryNonIdempotent ==
    (op = "request" /\ call.method \in NonIdempotentMethods)
    => /\ ndispatch <= 1
       /\ (seen \cap {"timeout", "badbody"} # {})
          => Ended /\ result = TimeoutError /\ ndispatch = 1 /\ sent = answered

\* C2 witness: a DELETE with three retries configured got an unparseable
\* body and has failed.
C2_Witness ==
    /\ op = "request" /\ call.method = "DELETE" /\ retries = 3
    /\ reply.kind = "badbody" /\ ~answered.login
    /\ result = TimeoutError

Is3xx(o) == o.kind = "response" /\ 300 <= o.status /\ o.status <= 399
IsErrorStatus(o) ==
    o.kind = "response" /\ 400 <= o.status /\ o.status <= 599 /\ o.status # 404

\* A Location on the endpoint's own host: a relative path, or an absolute
\* URL whose host and port are the endpoint's.
SameHostLocation(loc) ==
    /\ ~IsNone(loc)
    /\ \/ startswith(Val(loc), "/")
       \/ urlsplit2(Val(loc)).netloc = url.netloc

\* C3 (as claimed): when the dispatches of a request() have all been
\* answered by 3xx responses, the last with the relative Location
\* /api/v1/applications/42, and fewer than `redirects` of them have been
\* received, the request is in flight again, to that path, with the
\* redirect counter at the number of redirects received and the retry
\* counter unchanged.
C3_RedirectChased ==
    (/\ op = "request"
     /\ ~answered.login
     /\ Is3xx(reply) /\ reply.loc = Some(RelLocation)
     /\ seen = {"3xx"}
     /\ ndispatch < redirects)
    => /\ pc = "wait"
       /\ ~sent.login
       /\ ndispatch >= 2
       /\ urlsplit2(sent.url).path = RelLocation
       /\ Top(Cur).redirects = ndispatch - 1
       /\ Top(Cur).retries = 0

\* C4 (as claimed): a request() whose dispatches were all answered by 3xx
\* responses with a same-host Location ends with 'maximum number of
\* redirects reached', after exactly `redirects` such responses.
C4_RedirectsThenFail ==
    (/\ op = "request"
     /\ Ended
     /\ seen = {"3xx"}
     /\ Is3xx(reply) /\ SameHostLocation(reply.loc))
    => result = MaxRedirectsError /\ ndispatch = redirects

\* C5: a 404 response to a dispatch of request() ends the call: it returns
\* None, nothing is dispatched after it and the cookies are those the client
\* held when the response arrived.
C5_NotFoundIsNone ==
    (/\ op = "request"
     /\ ~answered.login
     /\ reply.kind = "response" /\ reply.status = 404)
    => /\ Ended
       /\ result = Returned(NoEntity)
       /\ sent = answered
       /\ cookies = pre

\* C5 witness: a logged-in client got a 404 for GET /applications/42.
C5_Witness ==
    /\ op = "request" /\ call.method = "GET" /\ call.path = AppPath
    /\ ~answered.login /\ reply.kind = "response" /\ reply.status = 404
    /\ ~IsNone(cookies) /\ Val(cookies) # << >>
    /\ result = Returned(NoEntity)

\* C6: a response with a 4xx or 5xx status other than 404 ends the call
\* with the RavelloError 'got status' that carries the status and the
\* ERROR-CODE and ERROR-MESSAGE header values, 'unknown' for an absent one;
\* nothing is dispatched after it, the cookies are those the client held
\* when it arrived, and when it answers the first dispatch of the request
\* that dispatch is the only one.
C6_ErrorStatusRaises ==
    IsErrorStatus(reply)
    => /\ Ended
       /\ result = Raised("RavelloError", "got status",
                          Some(<<reply.status,
                                 IF reply.ecode = None THEN "unknown" ELSE reply.ecode[1],
                                 IF reply.emsg = None THEN "unknown" ELSE reply.emsg[1]>>),
                          answered.login)
       /\ sent = answered
       /\ cookies = pre
       /\ (seen = {"error"} /\ ~answered.login) => ndispatch = 1

\* C6 witness: a logged-in client got a 500 without ERROR-CODE for a PUT
\* and is still logged in.
C6_Witness ==
    /\ op = "request" /\ call.method = "PUT" /\ retries = 3
    /\ reply.kind = "response" /\ reply.status = 500
    /\ reply.ecode = None /\ reply.emsg # None
    /\ ~IsNone(cookies) /\ Val(cookies) # << >>
    /\ result.kind = "raise" /\ result.msg = "got status"

\* C7: when request() is called with credentials set, no session and
\* auto-login enabled, the first dispatch of the request follows exactly one
\* dispatch of POST .../login with the Basic Authorization of the
\* credentials, which a response has answered, and carries as its Cookie
\* header the session cookie of that response's Set-Cookie header.
C7_LoginBeforeRequest ==
    (/\ op = "request"
     /\ pc = "wait" /\ ~sent.login /\ ndispatch = 1
     /\ ~IsNone(username) /\ ~IsNone(password)
     /\ IsNone(entry.cookies) /\ entry.autologin)
    => /\ nlogin = 1
       /\ answered.login
       /\ answered.method = "POST"
       /\ endswith(answered.url, LoginPath)
       /\ answered.hdict.Authorization = Some(<<"Basic", username[1], password[1]>>)
       /\ reply.kind = "response"
       /\ ~IsNone(reply.setcookie)
       /\ sent.hdict.Cookie =
             IF reply.setcookie[1] = << >> THEN None
             ELSE Some(<< <<"JSESSIONID", "=", reply.setcookie[1][1][2]>> >>)

\* C7 witness: the request is in flight with the cookie s2 of the login.
C7_Witness ==
    /\ op = "request" /\ pc = "wait" /\ ~sent.login /\ ndispatch = 1 /\ nlogin = 1
    /\ IsNone(entry.cookies) /\ entry.autologin
    /\ reply.setcookie = Some(SetCookieHeader("s2"))
    /\ sent.hdict.Cookie = Some(<< <<"JSESSIONID", "=", "s2">> >>)

\* C8: when the POST /login of an automatic login inside request() times
\* out, brings an unparseable body or is answered with an error status, the
\* call has ended with that RavelloError, raised by the login; nothing was
\* dispatched after it, and when no dispatch of the request preceded the
\* login the request was never dispatched.
C8_LoginFailureIsFatal ==
    (/\ op = "request"
     /\ answered.login
     /\ reply.kind \in {"timeout", "badbody"} \/ IsErrorStatus(reply))
    => /\ Ended
       /\ result.kind = "raise" /\ result.exc = "RavelloError" /\ result.inlogin
       /\ result.msg = IF IsErrorStatus(reply) THEN "got status" ELSE "request timeout"
       /\ sent = answered
       /\ seen = {} => (ndispatch = 0 /\ nlogin = 1)

\* C8 witness: the automatic login of a GET with three retries timed out
\* and the GET was never dispatched.
C8_Witness ==
    /\ op = "request" /\ call.method = "GET" /\ retries = 3
    /\ answered.login /\ reply.kind = "timeout"
    /\ ndispatch = 0 /\ nlogin = 1
    /\ result = Raised("RavelloError", "request timeout", None, TRUE)

\* C9 (as claimed): when logout() has finished, by returning or by raising,
\* the client is not logged in; called on a client that was not logged in
\* it has dispatched nothing and has left the session state as it was, and
\* called on a logged-in client it has dispatched the logout call.
C9_LogoutClears ==
    (op = "logout" /\ Ended)
    => /\ IsNone(cookies)
       /\ IF IsNone(entry.cookies)
          THEN ndispatch = 0 /\ nlogin = 0 /\ autologin = entry.autologin
          ELSE ndispatch >= 1

\* C10 (as claimed): every dispatch in flight is addressed to the scheme,
\* host and port of the client's endpoint and to the current path of the
\* call (the endpoint's base path followed by the path of the call, or the
\* path of the redirect being chased).
C10_DispatchToEndpoint ==
    pc = "wait"
    => /\ urlsplit2(sent.url).scheme = url.scheme
       /\ urlsplit2(sent.url).netloc = url.netloc
       /\ urlsplit2(sent.url).path = Top(Cur).rpath

\* s with its prefix p removed
StripPrefix(s, p) == IF startswith(s, p) THEN SliceFromLen(s, p) ELSE s

\* The location of the record of a 2xx response as the priority rule names
\* it: the path of Content-Location, else the path of Location, else for a
\* POST the request path under the base path followed by '/' and the id,
\* else the request path under the base path.
ClaimedLocation ==
    IF ~IsNone(reply.cloc) THEN urlsplit2(Val(reply.cloc)).path
    ELSE IF ~IsNone(reply.loc) THEN urlsplit2(Val(reply.loc)).path
    ELSE IF call.method = "POST"
    THEN Str(Chars(url.path) \o Chars(call.path) \o <<"/">>
             \o IntChars(Val(reply.entity.items[1].id)))
    ELSE Str(Chars(url.path) \o Chars(call.path))

\* C11 (as claimed): when a POST, GET or PUT of request() has returned the
\* record of a 2xx response whose body is a map with a truthy id, the
\* record's _href is the location of the priority rule with the endpoint's
\* base path removed from its front.
C11_HrefIsStrippedLocation ==
    (/\ op = "request" /\ Ended /\ result.kind = "return"
     /\ call.method \in {"POST", "GET", "PUT"}
     /\ ~answered.login
     /\ reply.kind = "response"
     /\ HasTruthyId(reply.entity))
    => /\ result.value.kind = "dict"
       /\ result.value.items[1].href = Some(StripPrefix(ClaimedLocation, url.path))

\* C12: when request() has returned the list of a 2xx response, each
\* element with an id has the _href <path of the call>/<id>, each element
\* without an id has none, and nothing else of the list has changed,
\* whatever the Content-Location and Location headers of the response.
C12_ListHrefFromPath ==
    (/\ op = "request" /\ Ended /\ result.kind = "return"
     /\ ~answered.login
     /\ reply.kind = "response"
     /\ reply.entity.kind = "list")
    => /\ result.value.kind = "list"
       /\ Len(result.value.items) = Len(reply.entity.items)
       /\ \A i \in 1..Len(reply.entity.items) :
             result.value.items[i] =
                [reply.entity.items[i] EXCEPT
                   !.href = IF IsNone(reply.entity.items[i].id) THEN None
                            ELSE Some(Str(Chars(call.path) \o <<"/">>
                                          \o IntChars(Val(reply.entity.items[i].id))))]

\* C12 witness: a GET /applications was answered with a list and both
\* location headers; the first element got /applications/7, the second,
\* without an id, nothing.
C12_Witness ==
    /\ op = "request" /\ call.method = "GET" /\ call.path = AppsPath
    /\ reply.kind = "response" /\ reply.entity.kind = "list"
    /\ ~IsNone(reply.cloc) /\ ~IsNone(reply.loc)
    /\ result.kind = "return" /\ result.value.kind = "list"
    /\ result.value.items[1].href = Some("/applications/7")
    /\ result.value.items[2].href = None

\* C13 (as claimed): the GET that reload() dispatches for a record which a
\* GET brought without Content-Location and Location goes to the URL of
\* that GET, and for an element of the list which such a GET brought to
\* that URL followed by '/' and the element's id.
C13_ReloadSameUrl ==
    (/\ op = "reload" /\ pc = "wait" /\ ~sent.login
     /\ origin.method = "GET" /\ origin.bare)
    => /\ sent.method = "GET"
       /\ sent.url = IF origin.list
                     THEN Str(Chars(origin.url) \o <<"/">> \o IntChars(Val(Val(obj).id)))
                     ELSE origin.url

\* The elements of the list elems for which the callable f is true.
Sublist(elems, f) == SelectSeq(elems, LAMBDA e : Truthy(Apply(f, e)))

\* C17 (as claimed): a callable filter applied to a list of records, on
\* each of which the callable returns true or false, gives the list of the
\* elements for which it returns true, in their order.
C17_CallableOnList ==
    (/\ ret.done
     /\ args.f = "_match_filter"
     /\ args.flt.t = "fn"
     /\ args.obj.t = "list"
     /\ \A i \in 1..Len(args.obj.elems) : Apply(args.flt.f, args.obj.elems[i]).t = "bool")
    => ret.value = PyList(Sublist(args.obj.elems, args.flt.f))

\* The reference matcher of a map filter: the keys in the filter's order; a
\* key missing from the record fails; a map value is matched against the
\* record's value; a callable value ends the match with its own result;
\* any other value must equal the record's value.
RECURSIVE RefMatch(_, _)
RefMatch(rec, items) ==
    IF items = << >> THEN TRUE
    ELSE LET k == Head(items)[1]
             expected == Head(items)[2]
         IN  IF rec.t # "dict" \/ ~HasKey(rec, k) THEN FALSE
             ELSE IF expected.t = "dict"
             THEN RefMatch(Item(rec, k), expected.items) /\ RefMatch(rec, Tail(items))
             ELSE IF expected.t = "fn"
             THEN Truthy(Apply(expected.f, Item(rec, k)))
             ELSE Item(rec, k) = expected /\ RefMatch(rec, Tail(items))

\* C18 (as claimed): for a map filter, _match_filter returns for a record
\* what the reference matcher returns, and for a list of records the list
\* of the elements the reference matcher accepts.
C18_MatchesReference ==
    (/\ ret.done
     /\ args.f = "_match_filter"
     /\ args.flt.t = "dict")
    => ret.value =
          IF args.obj.t = "list"
          THEN PyList(SelectSeq(args.obj.elems, LAMBDA e : RefMatch(e, args.flt.items)))
          ELSE PyBool(RefMatch(args.obj, args.flt.items))

TimeoutWaiting == Raised("RavelloError", "timeout waiting for condition", None, FALSE)

\* C14 (as claimed): a wait_for() that has made a reload and has ended
\* without its last reload having satisfied cond has not returned normally;
\* when that reload had returned, it has raised 'timeout waiting for
\* condition'.
C14_NoMatchNoReturn ==
    (/\ op = "wait_for" /\ Ended
     /\ wait.polls >= 1
     /\ ~wait.matched)
    => /\ result.kind = "raise"
       /\ (reply.kind = "response" /\ reply.status = 200 /\ result.exc = "RavelloError")
          => result = TimeoutWaiting

\* C15 (as claimed): once a reload of wait_for() has satisfied cond,
\* wait_for() has returned normally, after one sleep less than reloads.
C15_MatchReturns ==
    (op = "wait_for" /\ wait.matched)
    => /\ Ended
       /\ result = Returned(NoEntity)
       /\ wait.sleeps = wait.polls - 1

\* C16 (as claimed): a wait_for() called without a timeout has the
\* deadline of one called with the client's call timeout, and has not
\* failed with a TypeError.
C16_DefaultTimeout ==
    (op = "wait_for" /\ IsNone(wait.timeout))
    => /\ wait.end_time = Some(wait.start + default_timeout)
       /\ ~(result.kind = "raise" /\ result.exc = "TypeError")

\* What close() does and leaves alone: no dispatch, no cookies afterwards,
\* the credentials, the endpoint and the configuration as they were.
CloseFrame ==
    /\ pc' = "idle" /\ ndispatch' = 0 /\ nlogin' = 0
    /\ IsNone(cookies')
    /\ UNCHANGED <<username, password, url, retries, redirects, autologin>>

\* The first dispatch of the call just made is that of a login.
LogsInFirst == pc' = "wait" /\ sent'.login /\ nlogin' = 1 /\ ndispatch' = 0

\* C19 (as claimed): every close() dispatches nothing, leaves the client
\* without cookies and leaves its credentials, endpoint and configuration
\* unchanged, and every request() that follows a close() on a client with
\* credentials (and a configuration that lets a request be dispatched)
\* logs in first.
C19_CloseThenLogin ==
    [][/\ Close => CloseFrame
       /\ (/\ op = "close"
           /\ ~IsNone(username) /\ ~IsNone(password)
           /\ retries > 0 /\ redirects > 0
           /\ Request) => LogsInFirst]_vars

\* the names among existing: its strings, and the name of its records
NamesAmong(existing) ==
    { existing[k] : k \in { j \in 1..Len(existing) : existing[j].t = "str" } }
    \cup { Item(existing[k], "name") : k \in { j \in 1..Len(existing) : existing[j].t = "dict" } }

\* every element of existing is a string or a record with a name
WellFormed(existing) ==
    \A k \in 1..Len(existing) :
        existing[k].t = "str" \/ (existing[k].t = "dict" /\ HasKey(existing[k], "name"))

Numbered(prefix, i) == PyStr(Str(Chars(prefix) \o IntChars(i)))

\* C20: for existing made of strings and of records with a name, new_name
\* returns prefix followed by the smallest i >= 0 whose name is not among
\* the existing names, and the result is not an element of existing.
C20_SmallestFreeName ==
    (args.f = "new_name" /\ ret.done /\ WellFormed(args.existing)) =>
        /\ \E i \in 0..Len(args.existing) :
              /\ ret.value = Numbered(args.prefix, i)
              /\ Numbered(args.prefix, i) \notin NamesAmong(args.existing)
              /\ \A j \in 0..(i - 1) : Numbered(args.prefix, j) \in NamesAmong(args.existing)
        /\ \A k \in 1..Len(args.existing) : args.existing[k] # ret.value
        /\ ret.value \notin NamesAmong(args.existing)

\* existing = ["vm0", {"id": 7, "name": "vm1"}] with prefix "vm" gives "vm2"
C20_Witness ==
    /\ args.f = "new_name" /\ ret.done
    /\ args.prefix = "vm"
    /\ args.existing = << PyStr("vm0"), PyDict(<< <<"id", PyInt(7)>>, <<"name", PyStr("vm1")>> >>) >>
    /\ ret.value = PyStr("vm2")

\* the VMs of the application: none without a deployment or without its vms
VmsOf(app) ==
    IF /\ HasKey(app, "deployment")
       /\ Item(app, "deployment").t = "dict"
       /\ HasKey(Item(app, "deployment"), "vms")
    THEN Item(Item(app, "deployment"), "vms").elems
    ELSE << >>

\* the application has no deployment, or one that is a record whose VMs,
\* if any, each have a state
WellFormedApp(app) ==
    \/ ~HasKey(app, "deployment")
    \/ /\ Item(app, "deployment").t = "dict"
       /\ \A i \in 1..Len(VmsOf(app)) : HasKey(VmsOf(app)[i], "state")

StatesOf(app) == { Item(VmsOf(app)[i], "state") : i \in 1..Len(VmsOf(app)) }

\* C21: application_state(app) returns None for an application without VMs
\* or without a deployment, the state itself when all VMs share one state,
\* and otherwise a list that holds each distinct state exactly once.
C21_ConsolidatedState ==
    (args.f = "application_state" /\ ret.done /\ WellFormedApp(args.app)) =>
        /\ StatesOf(args.app) = {} => ret.value = PyNone
        /\ Cardinality(StatesOf(args.app)) = 1 => ret.value \in StatesOf(args.app)
        /\ Cardinality(StatesOf(args.app)) > 1 =>
              /\ ret.value.t = "list"
              /\ Len(ret.value.elems) = Cardinality(StatesOf(args.app))
              /\ { ret.value.elems[i] : i \in 1..Len(ret.value.elems) } = StatesOf(args.app)

\* three VMs, two of them STARTED and one STOPPED: both states, once each
C21_Witness ==
    /\ args.f = "application_state" /\ ret.done
    /\ WellFormedApp(args.app)
    /\ Len(VmsOf(args.app)) = 3
    /\ StatesOf(args.app) = { PyStr("STARTED"), PyStr("STOPPED") }
    /\ ret.value = PyList(<< PyStr("STOPPED"), PyStr("STARTED") >>)

\* a login call is executing: _login has called _request, whose frame is on
\* the stack
LoginExecuting == \E i \in 1..Len(stack) : stack[i].login

\* C22 (as claimed): whenever no login call is executing the auto-login flag
\* is enabled, also after a login attempt that failed.
C22_AutologinOutsideLogin == ~LoginExecuting => autologin

\* C23 (as claimed, for a client whose auto-login is enabled when the call
\* begins): a call that has failed with 'request timeout' leaves the client
\* not logged in, and a dispatch of a request() that retries after a timeout
\* or an unparseable body, by a client with credentials, follows a login
\* made after that failure and carries the cookies of that login's response
\* and no others.
C23_DropSessionThenLogin ==
    /\ (Ended /\ result.kind = "raise" /\ result.msg = "request timeout") => IsNone(cookies)
    /\ (/\ op = "request"
        /\ pc = "wait" /\ ~sent.login /\ ndispatch >= 2
        /\ ~IsNone(username) /\ ~IsNone(password)
        /\ entry.autologin)
       => /\ nlogin >= 1
          /\ answered.login
          /\ reply.kind = "response"
          /\ ~IsNone(reply.setcookie)
          /\ sent.hdict.Cookie = IF SimpleCookie_load(Val(reply.setcookie)) = << >> THEN None
                                 ELSE Some(CookieHeader(SimpleCookie_load(Val(reply.setcookie))))

\* C24 (as claimed): a client is not logged in after construction, and when
\* a login, explicit or automatic, has raised, the client is not logged in.
C24_LoggedInOnlyAfterLogin ==
    /\ op = "init" => ~logged_in(Cur)
    /\ (Ended /\ result.kind = "raise" /\ result.inlogin) => ~logged_in(Cur)

\* The counters of every _request in progress are within their limits.
CountersInRange ==
    \A i \in 1..Len(stack) :
        /\ 0 <= stack[i].retries /\ stack[i].retries <= retries
        /\ 0 <= stack[i].redirects /\ stack[i].redirects <= redirects

\* What the arrival of an outcome does to the loop it arrives in: the
\* iteration ends the call of _request (the public call ends, or the login
\* returns to the request that made it), or it adds one to exactly one of the
\* two counters of the request.
IterationProgress ==
    IF stack[Len(stack)].login
    THEN pc' = "idle" \/ Len(stack') < Len(stack)
    ELSE \/ pc' = "idle"
         \/ /\ stack' # << >>
            /\ stack'[1].retries >= stack[1].retries
            /\ stack'[1].redirects >= stack[1].redirects
            /\ stack'[1].retries + stack'[1].redirects
                 = stack[1].retries + stack[1].redirects + 1

\* A request() that has ended with max retries = 0 or max redirects = 0 has
\* raised the error of that limit and has dispatched nothing.
ZeroLimit ==
    (op = "request" /\ Ended)
    => /\ retries = 0 => (result = MaxRetriesError /\ ndispatch = 0 /\ nlogin = 0)
       /\ (retries > 0 /\ redirects = 0)
             => (result = MaxRedirectsError /\ ndispatch = 0 /\ nlogin = 0)

\* C25: when every dispatch returns or times out, a request() in progress
\* ends; the counters of the loop stay between 0 and their limits, each
\* outcome ends the call or adds one to exactly one counter, the request is
\* dispatched at most retries + redirects times, and with a limit of 0 the
\* call raises the error of that limit without a dispatch.
C25_RequestTerminates ==
    /\ [](CountersInRange /\ ZeroLimit /\ (op = "request" => ndispatch <= retries + redirects))
    /\ [][Receive => IterationProgress]_vars
    /\ ((op = "request" /\ pc = "wait") ~> (op = "request" /\ Ended))

\* C25 witness: a GET without credentials timed out at each of its three
\* dispatches and ended with the retries error.
C25_Witness ==
    /\ op = "request" /\ call.method = "GET" /\ IsNone(username)
    /\ retries = 3 /\ redirects = 3 /\ ndispatch = 3 /\ nlogin = 0
    /\ seen = {"timeout"}
    /\ Ended /\ result = MaxRetriesError

\* host:port of a URL after the default port of its scheme is filled in
HostPort(u) == urlsplit2(u).netloc

\* The 3xx response last received names no Location or one on another host.
RefusedRedirect ==
    /\ ~answered.login
    /\ Is3xx(reply)
    /\ ~SameHostLocation(reply.loc)

\* C26 (as claimed): a 3xx response to request() with no Location header or
\* with an absolute Location on a host:port other than the endpoint's ends
\* the call with a RavelloError and nothing is dispatched after it; and every
\* dispatch in flight is addressed to the endpoint's host:port.
C26_NoForeignHost ==
    /\ (op = "request" /\ RefusedRedirect)
          => /\ Ended
             /\ result.kind = "raise" /\ result.exc = "RavelloError"
             /\ sent = answered
    /\ pc = "wait" => HostPort(sent.url) = url.netloc

\* The call has raised the 'got status' error.
GotStatusError == result.kind = "raise" /\ result.msg = "got status"

\* C27 (as claimed): a response to request() with a status from 200 to 299
\* makes the call return, one with a status from 300 to 399 is handled as a
\* redirect, a 404 makes the call return None, and 'got status' is raised
\* for the other statuses from 400 to 599 and for no others.
C27_StatusRanges ==
    (op = "request" /\ ~answered.login /\ reply.kind = "response")
    => /\ Class(reply) = "2xx" => (Ended /\ result.kind = "return")
       /\ Class(reply) = "3xx" => ~GotStatusError
       /\ Class(reply) = "404" => (Ended /\ result = Returned(NoEntity))
       /\ GotStatusError => IsErrorStatus(reply)

====
